---- MODULE Spec2Model ----
(***************************************************************************)
(* State-machine model of the Swarm orchestration kernel:                  *)
(*   - Orchestrator.process_task (mcp_core/orchestrator_loop.py) with its  *)
(*     algorithm handlers, the git workflow and the worker (LLM) flow,     *)
(*   - the Markdown plan bridge (mcp_core/sync),                           *)
(*   - the SQL session lock (mcp_core/postgres_client.py),                 *)
(*   - two processes sharing one profile file,                             *)
(*   - the git role dispatcher and its circuit breaker,                    *)
(*   - the debate engine, the context pruner on lists, and the merge of    *)
(*     one plan entry into a blackboard task,                              *)
(*   - the plan file's generate/parse round trip,                          *)
(*   - load_state and save_state over the SQL and file backends,           *)
(*   - TelemetryCollector.record_provenance,                               *)
(*   - the LLM client's rewrite of the profile file,                       *)
(*   - the commit, push and PR steps of the git workflow with the tool     *)
(*     calls the commit-message LLM returns,                               *)
(*   - SelfHealingMonitor.check_health,                                    *)
(*   - DebateEngine.select_next_speaker, VotingConsensus.compute_decision, *)
(*     the memory worker's claim_task on the global plan,                  *)
(*   - the orchestrate loop left to run for ever (SpecLoop),               *)
(*   - the dispatcher's record of role failures and the performance index, *)
(*   - sync_outbound followed by sync_inbound on an untouched plan,        *)
(*   - the worker context a tick builds from the memory_bank.              *)
(*                                                                         *)
(* A feedback log is modelled by its length plus the one fact about its    *)
(* text that the code reads back (whether the branch name occurs in it).   *)
(* The provenance log is modelled by the set of its (action, artifact)     *)
(* entries.  A task's description is identified with its task id, so the   *)
(* plan, which the bridge keys by description, is keyed by task id.        *)
(***************************************************************************)
EXTENDS Integers, Sequences, FiniteSets, TLC

(* ---------------- program constants ---------------- *)
LOOP_LIMIT == 20
max_retries == 3

(* ---------------- bounds of the model ---------------- *)
MaxTicks == 4
MaxRoleEntries == 2
MaxEdits == 2
MaxShortRun == 2
MaxClock == 16
MaxTracked == 2
max_rounds == 2
MaxCritiques == 6
MaxLog == 5
MaxKeep == 2
MaxEvents == 2
MaxCalls == 2
MaxTools == 3
MaxTurns == 2
MaxVotes == 3

Tasks == {"t1", "t2"}
FbSeeds == {0, 15, 20}

VARIABLES
    mem,        \* Orchestrator.state: the in-memory ProjectProfile
    disk,       \* the persisted ProjectProfile (project_profile.json)
    plan,       \* docs/ai/PLAN.md as the bridge parses it
    dirty,      \* GitWorker.has_changes(): uncommitted changes in the workspace
    cfg,        \* environment: SWARM_STRICT_GIT, git provider, ORCHESTRATOR_MODE
    last,       \* history: the operation that produced the current state
    ticks_left, \* process_task calls left in the bounded run
    fails,      \* history: consecutive ticks of a task whose worker call failed
    reverted,   \* history: <<task, log still within the loop limit>> for each
                \* strict-git revert to PENDING
    rejected,   \* history: tasks whose latest tick was a strict-git rejection
    phase,      \* Orchestrator.orchestrate: "top" of the loop, or "ticked" once it
                \* has processed a pending task of this iteration
    nedits,     \* history: number of edits made to the plan
    pc,         \* a tick taken in steps: between its load_state and its save_state
    cli,        \* the process running `orchestrator task`: position, state, task id
    persisted,  \* history: every task id ever written to the profile file
    session,    \* the session_state row: exists, locked_by, lock_expires_at
    clock,      \* NOW() of the database, in minutes
    lk_last     \* history: the latest call on the session row

kvars == <<mem, disk, plan, dirty, cfg, last, ticks_left, fails, reverted, rejected>>
pvars == <<phase, nedits>>
cvars == <<pc, cli, persisted>>
lvars == <<session, clock, lk_last>>

\* telemetry: the role statistics the telemetry store holds
\* rd: the last call of GitRoleDispatcher.dispatch (task triggers, reports)
VARIABLES telemetry, rd
dvars == <<telemetry, rd>>

\* debate: the DebateState the engine holds for one debate id
\* db_last: the last call made on the debate engine
VARIABLES debate, db_last
bvars == <<debate, db_last>>

\* pin: the arguments of a call of ContextPruner.prune and the pruner's provider
\* pout: what the call returned, as positions of the input log
VARIABLES pin, pout
prvars == <<pin, pout>>

\* board: a blackboard task as the inbound sync finds and leaves it
\* entry: the plan's entry with that task's description
\* sync_last: the last inbound sync of the entry (the task parsed, the outcome)
VARIABLES board, entry, sync_last
mvars == <<board, entry, sync_last>>

\* rt_in: a list of blackboard tasks handed to MarkdownBridge.generate_markdown
\* rt_out: the document generated from it and the tasks parsed back
VARIABLES rt_in, rt_out
rtvars == <<rt_in, rt_out>>

\* smem: Orchestrator.state as a set of task ids; srow: the session_state row's
\* profile_data; sfile: the profile file; sql_enabled: POSTGRES_URL is set;
\* io_last: the last load_state or save_state call and what each backend did
VARIABLES smem, srow, sfile, sql_enabled, io_last
svars == <<smem, srow, sfile, sql_enabled, io_last>>

\* pbuf: the roles of the events in the telemetry buffer; prov_last: the last
\* record_provenance call
VARIABLES pbuf, prov_last
gvars == <<pbuf, prov_last>>

\* wmem: worker_models of Orchestrator.state; wfile: worker_models in
\* project_profile.json; w_last: the last operation on the file
VARIABLES wmem, wfile, w_last
wvars == <<wmem, wfile, w_last>>

\* gw_in: the task flags, the workspace and the tool calls the commit-message
\* LLM returns; gw_out: what one run of the commit, push and PR steps did
VARIABLES gw_in, gw_out
gwvars == <<gw_in, gw_out>>

\* hin: the problematic tools and the role statistics the health check reads;
\* hout: the SystemHealth it returns
VARIABLES hin, hout
hvars == <<hin, hout>>

\* sp_in: the debate state and constraints select_next_speaker is called with;
\* sp_out: what it returned
VARIABLES sp_in, sp_out
spvars == <<sp_in, sp_out>>

\* vt_in: the votes, the voters' Elo ratings and use_elo; vt_out: the ConsensusResult
VARIABLES vt_in, vt_out
vtvars == <<vt_in, vt_out>>

\* gplan: the task lines of the global plan file; claimer: each session's
\* claim_task call (position, task, the content it read, result)
VARIABLES gplan, claimer
clvars == <<gplan, claimer>>

\* tstore: the events table of telemetry.db; circuit_breakers: the failure
\* counts of SelfHealingMonitor; fd_last: the last dispatch of one role
VARIABLES tstore, circuit_breakers, fd_last
fvars == <<tstore, circuit_breakers, fd_last>>

\* memory_bank: Orchestrator.state.memory_bank, a dict in insertion order;
\* bank_disk: the memory_bank of the saved profile; cx_last: the last tick
\* that built a worker context (what it loaded, the context it passed on)
VARIABLES memory_bank, bank_disk, cx_last
cxvars == <<memory_bank, bank_disk, cx_last>>

xvars == <<rtvars, svars, gvars, wvars, gwvars, hvars, spvars, vtvars, clvars, fvars, cxvars>>
oldvars == <<kvars, pvars, cvars, lvars, dvars, bvars, prvars, mvars>>

avars == <<dvars, bvars, prvars, mvars, xvars>>

(* ---------------- data ---------------- *)

\* swarm_schemas.Task with its defaults; feedback_log is the log's length,
\* git_branch_name is whether a branch name is set, branch_logged whether the
\* branch name occurs in str(feedback_log), role_triggered the disjunction of
\* the four GitWorker role flags.
Task(status) ==
    [ status |-> status,
      feedback_log |-> 0,
      context_needed |-> FALSE,
      requires_consensus |-> FALSE,
      requires_debate |-> FALSE,
      verification_required |-> FALSE,
      tests_failing |-> FALSE,
      git_commit_ready |-> FALSE,
      git_auto_push |-> FALSE,
      git_create_pr |-> FALSE,
      git_branch_name |-> FALSE,
      branch_logged |-> FALSE,
      role_triggered |-> FALSE ]

EmptyMap == [x \in {} |-> x]

\* swarm_schemas.ProjectProfile: the task table and the provenance log.
ProjectProfile == [ tasks |-> EmptyMap, provenance_log |-> {} ]

\* ProjectProfile.add_task / self.state.tasks[task_id] = task
add_task(profile, id, task) ==
    [profile EXCEPT !.tasks =
        [x \in (DOMAIN profile.tasks) \cup {id} |->
            IF x = id THEN task ELSE profile.tasks[x]]]

\* task.feedback_log.append(...), n times
Say(task, n) == [task EXCEPT !.feedback_log = @ + n]

\* collector.record_provenance(...) followed by provenance_log.append(sig)
record_provenance(log, action, ref) == log \cup {<<action, ref>>}

(* ---------------- process_task: guards ---------------- *)

check_loop_state_off_by_one(task) == task.feedback_log > LOOP_LIMIT + 1

\* Orchestrator.check_loop_state
check_loop_state(task) == task.feedback_log > LOOP_LIMIT

\* Orchestrator.load_state, file backend with the profile file present
load_state(m, d) == d

\* ContextPruner.prune on the entry-set view of the log: a log of at most
\* keep_tail + keep_relevant entries is returned whole.
keep_tail == 10
keep_relevant == 20
prune(log) ==
    IF Cardinality(log) <= keep_tail + keep_relevant THEN log
    ELSE CHOOSE s \in SUBSET log : Cardinality(s) = keep_tail + keep_relevant

(* ---------------- process_task: algorithm handlers ---------------- *)
(* A handler works on the running tick r = [task, prov, dirty, ran, ok]:   *)
(* the task being processed, the provenance log, the workspace, the        *)
(* handlers invoked so far (in order) and those that returned True.        *)

Mark(r, name, success) ==
    [r EXCEPT !.ran = Append(@, name),
              !.ok = IF success THEN @ \cup {name} ELSE @]

\* Orchestrator._handle_context_retrieval: True with a summary or a
\* "no relevant context" note; False with an error note when HippoRAG raises.
handle_context_retrieval(r, out) ==
    Mark([r EXCEPT !.task = Say(@, 1)], "context_needed", out = "ok")

\* Orchestrator._handle_consensus: True with a note; False, silently, on error.
handle_consensus(r, out) ==
    IF out = "ok"
    THEN Mark([r EXCEPT !.task = Say(@, 1)], "requires_consensus", TRUE)
    ELSE Mark(r, "requires_consensus", FALSE)

\* Orchestrator._handle_debate: True with a note; False, silently, on error.
handle_debate(r, out) ==
    IF out = "ok"
    THEN Mark([r EXCEPT !.task = Say(@, 1)], "requires_debate", TRUE)
    ELSE Mark(r, "requires_debate", FALSE)

\* Orchestrator._handle_verification: a note either way; False when the
\* verifier is unavailable.
handle_verification(r, out) ==
    Mark([r EXCEPT !.task = Say(@, 1)], "verification_required", out = "ok")

\* Orchestrator._handle_fault_localization: False without a note when
\* SWARM_SBFL_ENABLED is off; otherwise a note, True iff the analysis ran.
handle_fault_localization(r, out) ==
    IF out = "disabled"
    THEN Mark(r, "tests_failing", FALSE)
    ELSE Mark([r EXCEPT !.task = Say(@, 1)], "tests_failing", out = "ok")

(* ---------------- git workflow ---------------- *)

\* Orchestrator._execute_git_tool: git_commit records a git_commit
\* provenance entry; whether the tree is clean afterwards depends on what
\* was staged.  git_add, git_push and run_command leave the blackboard alone.
execute_git_tool(r, tool_name, out) ==
    IF tool_name = "git_commit"
    THEN [r EXCEPT !.prov = record_provenance(@, "git_commit", "git-writer"),
                   !.dirty = (out = "commit_partial")]
    ELSE r

\* _handle_git_workflow, step 1: branch worker
branch_worker(r) ==
    IF r.task.git_branch_name /\ ~r.task.branch_logged
    THEN [r EXCEPT !.task = [Say(@, 2) EXCEPT !.branch_logged = TRUE]]
    ELSE r

\* _handle_git_workflow, step 2: commit worker
commit_worker(r, out) ==
    IF ~r.task.git_commit_ready THEN r
    ELSE IF ~r.dirty THEN [r EXCEPT !.task = Say(@, 1)]
    ELSE CASE out \in {"commit_clean", "commit_partial"} ->
                 [execute_git_tool(r, "git_commit", out) EXCEPT !.task = Say(@, 1)]
           [] out = "tool_raise" ->
                 [r EXCEPT !.task = Say(@, 1),
                           !.prov = record_provenance(@, "git_error", "git-writer")]
           [] OTHER -> [r EXCEPT !.task = Say(@, 1)]

\* _handle_git_workflow, step 3: push worker
push_worker(r, out) ==
    IF ~(r.task.git_auto_push \/ r.task.git_create_pr) THEN r
    ELSE LET r1 == IF r.dirty THEN [r EXCEPT !.task = Say(@, 1)] ELSE r
         IN  IF ~r1.task.git_branch_name THEN r1
             ELSE IF out = "raise"
                  THEN [r1 EXCEPT !.task = Say(@, 1),
                                  !.prov = record_provenance(@, "git_error", "git-writer")]
                  ELSE [execute_git_tool(r1, "git_push", out) EXCEPT !.task = Say(@, 1)]

\* _handle_git_workflow, step 4: PR worker (the auto-PR branch needs a
\* COMPLETED task, which process_task never passes to the handler)
pr_worker(r, out) ==
    IF ~(r.task.git_create_pr /\ r.task.git_branch_name) THEN r
    ELSE IF out = "no_token" THEN [r EXCEPT !.task = Say(@, 2)]
    ELSE [r EXCEPT !.task = Say(@, 1)]

\* Orchestrator._handle_git_workflow.  g = [top, roles, commit, push, pr]:
\* g.roles is the number of entries the role reports add (-1: dispatch raised).
handle_git_workflow(r, g) ==
    IF ~cfg.git
    THEN Mark([r EXCEPT !.task = Say(@, 1)], "git_workflow", FALSE)
    ELSE IF r.task.role_triggered
    THEN IF g.roles < 0
         THEN Mark([r EXCEPT !.task = Say(@, 1)], "git_workflow", FALSE)
         ELSE Mark([r EXCEPT !.task = Say(@, g.roles)], "git_workflow", TRUE)
    ELSE IF g.top = "raise"
    THEN Mark([r EXCEPT !.task = Say(@, 1),
                        !.prov = record_provenance(@, "git_workflow_error", "system")],
              "git_workflow", FALSE)
    ELSE Mark(pr_worker(push_worker(commit_worker(branch_worker(r), g.commit),
                                    g.push), g.pr),
              "git_workflow", TRUE)

(* ---------------- process_task: dispatch ---------------- *)

\* the dispatch as an if/elif chain: the first success stops the chain
algorithm_dispatch_first_wins(r0, o) ==
    LET r1 == IF r0.task.context_needed
              THEN handle_context_retrieval(r0, o.ctx) ELSE r0
        r2 == IF r1.ok = {} /\ r1.task.requires_consensus
              THEN handle_consensus(r1, o.cons) ELSE r1
        r3 == IF r2.ok = {} /\ r2.task.requires_debate
              THEN handle_debate(r2, o.deb) ELSE r2
        r4 == IF r3.ok = {} /\ r3.task.verification_required
              THEN handle_verification(r3, o.ver) ELSE r3
        r5 == IF r4.ok = {} /\ r4.task.tests_failing
              THEN handle_fault_localization(r4, o.tf) ELSE r4
    IN  IF r5.ok = {} /\ (r5.task.git_commit_ready \/ r5.task.git_create_pr)
        THEN handle_git_workflow(r5, o.git) ELSE r5

\* process_task, "[V3.0: Algorithm Dispatch]": six independent ifs
algorithm_dispatch(r0, o) ==
    LET r1 == IF r0.task.context_needed
              THEN handle_context_retrieval(r0, o.ctx) ELSE r0
        r2 == IF r1.task.requires_consensus
              THEN handle_consensus(r1, o.cons) ELSE r1
        r3 == IF r2.task.requires_debate
              THEN handle_debate(r2, o.deb) ELSE r2
        r4 == IF r3.task.verification_required
              THEN handle_verification(r3, o.ver) ELSE r3
        r5 == IF r4.task.tests_failing
              THEN handle_fault_localization(r4, o.tf) ELSE r4
    IN  IF r5.task.git_commit_ready \/ r5.task.git_create_pr
        THEN handle_git_workflow(r5, o.git) ELSE r5

(* ---------------- Markdown plan bridge ---------------- *)

PlanStatus == {"PENDING", "IN_PROGRESS", "COMPLETED"}

\* MarkdownBridge.generate_markdown, _render_task: the checkbox is x for
\* COMPLETED, / for IN_PROGRESS and blank otherwise (FAILED included); only
\* the two whitelisted flags are written.
render_task(task) ==
    [ status |-> IF task.status \in {"COMPLETED", "IN_PROGRESS"}
                 THEN task.status ELSE "PENDING",
      git_commit_ready |-> task.git_commit_ready,
      git_create_pr |-> task.git_create_pr ]

\* SyncEngine.sync_outbound: the plan file is rewritten from the task table
sync_outbound(profile) == [d \in DOMAIN profile.tasks |-> render_task(profile.tasks[d])]

\* MarkdownBridge.parse_file, one task line with its Flags child: a Task stub
parse_task(line) ==
    [Task(line.status) EXCEPT !.git_commit_ready = line.git_commit_ready,
                              !.git_create_pr = line.git_create_pr]

merge_task_any_status(t_old, t_new) ==
    [t_old EXCEPT !.status = t_new.status,
                  !.git_commit_ready = t_new.git_commit_ready,
                  !.git_create_pr = t_new.git_create_pr]

\* SyncEngine.sync_inbound, "Update existing task"
merge_task(t_old, t_new) ==
    [t_old EXCEPT !.status = IF t_new.status # "PENDING" THEN t_new.status ELSE @,
                  !.git_commit_ready = t_new.git_commit_ready,
                  !.git_create_pr = t_new.git_create_pr]

\* SyncEngine.sync_inbound: [profile, changes]; changes is True only when a
\* task was added.
sync_inbound(profile, pl) ==
    [ profile |->
        [profile EXCEPT !.tasks =
            [d \in (DOMAIN profile.tasks) \cup (DOMAIN pl) |->
                IF d \notin DOMAIN pl THEN profile.tasks[d]
                ELSE IF d \in DOMAIN profile.tasks
                     THEN merge_task(profile.tasks[d], parse_task(pl[d]))
                     ELSE parse_task(pl[d])]],
      changes |-> (DOMAIN pl) \ (DOMAIN profile.tasks) # {} ]

(* ---------------- process_task: worker flow ---------------- *)

complete_task_ungated(r, t) ==
    [r EXCEPT !.task = [r.task EXCEPT !.status = "COMPLETED"],
              !.prov = record_provenance(@, "task_completed", t)]

\* process_task, "if response.status == SUCCESS": completion, its provenance
\* entry, then the strict-git gate (or the legacy nudge)
complete_task(r, t) ==
    LET done == [r EXCEPT !.task = [r.task EXCEPT !.status = "COMPLETED"],
                          !.prov = record_provenance(@, "task_completed", t)]
    IN  IF cfg.git /\ done.dirty
        THEN IF cfg.strict
             THEN [done EXCEPT !.task = [Say(@, 2) EXCEPT !.status = "PENDING",
                                                          !.git_commit_ready = TRUE,
                                                          !.git_branch_name = TRUE]]
             ELSE [done EXCEPT !.task = Say(@, 1)]
        ELSE done

\* process_task, "else": the failure is logged, the status is left alone
fail_task(r, t) ==
    [r EXCEPT !.prov = record_provenance(@, "task_failed", t)]

\* the profile with the tick's task and provenance log written into it
Commit(profile, t, r) ==
    [add_task(profile, t, r.task) EXCEPT !.provenance_log = r.prov]

Result(m, d, p, r, path) ==
    [ mem |-> m, disk |-> d, plan |-> p, dirty |-> r.dirty,
      ran |-> r.ran, ok |-> r.ok, path |-> path ]

\* process_task from the sliding window to the end: the agentic pause
\* returns without saving; a parsed handoff builds a Task without a status,
\* which the schema rejects, so the tick raises before anything is saved;
\* otherwise the response is applied, the profile saved and the plan written.
worker_flow(st, t, r, o) ==
    IF cfg.agentic THEN Result(Commit(st, t, r), disk, plan, r, "agentic")
    ELSE LET r1 == [r EXCEPT !.task = Say(@, 1)]
         IN  IF o.handoff THEN Result(Commit(st, t, r1), disk, plan, r1, "raised")
             ELSE LET r2 == IF o.resp = "SUCCESS" THEN complete_task(r1, t)
                                                  ELSE fail_task(r1, t)
                      new == Commit(st, t, r2)
                  IN  Result(new, new, sync_outbound(new), r2, "worker")

\* Orchestrator.process_task(task_id) after its load_state returned st, with
\* the environment's answers o
process_task(st, t, o) ==
    LET r0 == [ task |-> st.tasks[t], prov |-> st.provenance_log,
                dirty |-> dirty, ran |-> << >>, ok |-> {} ]
    IN  IF t \notin DOMAIN st.tasks
        THEN [ mem |-> st, disk |-> disk, plan |-> plan, dirty |-> dirty,
               ran |-> << >>, ok |-> {}, path |-> "skip" ]
        ELSE IF r0.task.status = "COMPLETED"
        THEN Result(st, disk, plan, r0, "skip")
        ELSE IF check_loop_state(r0.task)
        THEN LET r1 == [r0 EXCEPT !.task = [Say(@, 1) EXCEPT !.status = "FAILED"]]
                 new == Commit(st, t, r1)
             IN  Result(new, new, plan, r1, "loop")
        ELSE LET r1 == algorithm_dispatch([r0 EXCEPT !.prov = prune(@)], o)
             IN  IF r1.ok # {}
                 THEN LET new == Commit(st, t, r1)
                      IN  Result(new, new, plan, r1, "handled")
                 ELSE worker_flow(st, t, r1, o)

(* ---------------- the environment's answers to one tick ---------------- *)

Flagged(task) ==
    {h \in {"context_needed", "requires_consensus", "requires_debate",
            "verification_required", "tests_failing"} : task[h]}
    \cup (IF task.git_commit_ready \/ task.git_create_pr THEN {"git_workflow"} ELSE {})

GitOutcomes(task) ==
    LET on == (task.git_commit_ready \/ task.git_create_pr) /\ cfg.git
        main == on /\ ~task.role_triggered
    IN  [ top : IF main THEN {"ok", "raise"} ELSE {"na"},
          roles : IF on /\ task.role_triggered THEN -1 .. MaxRoleEntries ELSE {0},
          commit : IF main /\ task.git_commit_ready /\ dirty
                   THEN {"no_tools", "commit_clean", "commit_partial", "tool_raise"}
                   ELSE {"na"},
          push : IF main /\ (task.git_auto_push \/ task.git_create_pr)
                 THEN {"ok", "raise"} ELSE {"na"},
          pr : IF main /\ task.git_create_pr
               THEN {"no_github", "no_token", "generated"} ELSE {"na"} ]

HandlerOutcomes(task) ==
    [ ctx : IF task.context_needed THEN {"ok", "fail"} ELSE {"na"},
      cons : IF task.requires_consensus THEN {"ok", "fail"} ELSE {"na"},
      deb : IF task.requires_debate THEN {"ok", "fail"} ELSE {"na"},
      ver : IF task.verification_required THEN {"ok", "fail"} ELSE {"na"},
      tf : IF task.tests_failing THEN {"ok", "fail", "disabled"} ELSE {"na"},
      git : GitOutcomes(task) ]

\* the worker's AgentResponse: its status and whether its reasoning trace
\* carries a well-formed <handoff_to role="X"> element
WorkerOutcomes ==
    [ resp : {"SUCCESS", "FAILED"},
      handoff : BOOLEAN ]

NoWorker == [resp |-> "na", handoff |-> FALSE]

With(h, w) ==
    [ ctx |-> h.ctx, cons |-> h.cons, deb |-> h.deb, ver |-> h.ver, tf |-> h.tf,
      git |-> h.git, resp |-> w.resp, handoff |-> w.handoff ]

\* the answers a tick on t can get: the worker is asked only when the tick
\* reaches the autonomous worker flow
NoHandler ==
    [ ctx |-> "na", cons |-> "na", deb |-> "na", ver |-> "na", tf |-> "na",
      git |-> [top |-> "na", roles |-> 0, commit |-> "na", push |-> "na", pr |-> "na"] ]

Outcomes(st, t) ==
    IF t \notin DOMAIN st.tasks THEN {With(NoHandler, NoWorker)}
    ELSE UNION { IF process_task(st, t, With(h, NoWorker)).path = "worker"
                 THEN {With(h, w) : w \in WorkerOutcomes}
                 ELSE {With(h, NoWorker)} :
                 h \in HandlerOutcomes(st.tasks[t]) }

StatusOf(profile) == [t \in DOMAIN profile.tasks |-> profile.tasks[t].status]

Idle ==
    [ op |-> "init", task |-> "none", pre |-> EmptyMap, pre_over |-> FALSE,
      pre_dirty |-> FALSE, flagged |-> {}, ran |-> << >>, ok |-> {},
      path |-> "none", success |-> FALSE, after_reject |-> FALSE ]

(* ---------------- actions of the kernel ---------------- *)

\* one call of process_task(t), whoever makes it
TickStep(t) ==
    /\ t \in DOMAIN load_state(mem, disk).tasks
    /\ LET st == load_state(mem, disk)
           known == t \in DOMAIN st.tasks
       IN  \E o \in Outcomes(st, t) :
             LET res == process_task(st, t, o)
                 strict_reject == /\ res.path = "worker"
                                  /\ o.resp = "SUCCESS"
                                  /\ res.mem.tasks[t].status # "COMPLETED"
             IN  /\ mem' = res.mem
                 /\ disk' = res.disk
                 /\ plan' = res.plan
                 /\ dirty' = res.dirty
                 /\ last' = [ op |-> "tick", task |-> t, pre |-> StatusOf(st),
                              pre_over |-> known /\ st.tasks[t].feedback_log > LOOP_LIMIT,
                              pre_dirty |-> dirty,
                              flagged |-> IF known THEN Flagged(st.tasks[t]) ELSE {},
                              ran |-> res.ran, ok |-> res.ok, path |-> res.path,
                              success |-> res.path = "worker" /\ o.resp = "SUCCESS",
                              after_reject |-> t \in rejected ]
                 /\ fails' = IF res.path = "worker" /\ o.resp # "SUCCESS"
                             THEN [fails EXCEPT ![t] = @ + 1]
                             ELSE [fails EXCEPT ![t] = 0]
                 /\ reverted' =
                       IF strict_reject
                       THEN reverted \cup
                            {<<t, res.mem.tasks[t].feedback_log <= LOOP_LIMIT>>}
                       ELSE reverted
                 /\ rejected' = IF strict_reject THEN rejected \cup {t}
                                ELSE rejected \ {t}
    /\ UNCHANGED <<avars, cfg, nedits, cvars, lvars>>

\* one call of process_task(t) in a run of at most MaxTicks calls
Tick(t) ==
    /\ ticks_left > 0
    /\ TickStep(t)
    /\ ticks_left' = ticks_left - 1
    /\ phase' = IF load_state(mem, disk).tasks[t].status = "PENDING"
                THEN "ticked" ELSE phase

\* Orchestrator.orchestrate, "while True": process_task on a task that the
\* state just loaded holds as PENDING, for as long as there is one; nothing
\* catches an exception of process_task, which ends the loop
OrchestrateTick(t) ==
    /\ phase = "top"
    /\ t \in DOMAIN load_state(mem, disk).tasks
    /\ load_state(mem, disk).tasks[t].status = "PENDING"
    /\ TickStep(t)
    /\ phase' = IF last'.path = "raised" THEN "stopped" ELSE "ticked"
    /\ UNCHANGED ticks_left

\* Orchestrator.orchestrate, "[V3.6: Sync]", reached once the pending tasks
\* of the iteration were processed: inbound sync on the in-memory profile,
\* saved only when sync_inbound returns True
SyncInbound ==
    /\ phase = "ticked"
    /\ LET res == sync_inbound(mem, plan)
       IN  /\ mem' = res.profile
           /\ disk' = IF res.changes THEN res.profile ELSE disk
    /\ last' = [Idle EXCEPT !.op = "sync", !.pre = StatusOf(mem), !.pre_dirty = dirty]
    /\ phase' = "top"
    /\ UNCHANGED <<avars, plan, dirty, cfg, ticks_left, fails, reverted, rejected, nedits,
                   cvars, lvars>>

\* Orchestrator.orchestrate, top of the loop: self.load_state() drops what
\* the last iteration changed in memory and did not save
LoadState ==
    /\ phase = "top"
    /\ mem # disk
    /\ mem' = load_state(mem, disk)
    /\ last' = [Idle EXCEPT !.op = "load"]
    /\ UNCHANGED <<avars, disk, plan, dirty, cfg, ticks_left, fails, reverted, rejected,
                   pvars, cvars, lvars>>

\* a person sets the checkbox of a task line of the plan, or adds the line
HumanEdit(d, mark) ==
    /\ nedits < MaxEdits
    /\ IF d \in DOMAIN plan THEN plan[d].status # mark ELSE TRUE
    /\ plan' = [x \in (DOMAIN plan) \cup {d} |->
                  IF x # d THEN plan[x]
                  ELSE IF d \in DOMAIN plan THEN [plan[d] EXCEPT !.status = mark]
                  ELSE render_task(Task(mark))]
    /\ nedits' = nedits + 1
    /\ last' = [Idle EXCEPT !.op = "edit"]
    /\ UNCHANGED <<avars, mem, disk, dirty, cfg, ticks_left, fails, reverted, rejected, phase,
                   cvars, lvars>>

\* files of the workspace are modified
EditFiles ==
    /\ ~dirty
    /\ dirty' = TRUE
    /\ last' = [Idle EXCEPT !.op = "env"]
    /\ UNCHANGED <<avars, mem, disk, plan, cfg, ticks_left, fails, reverted, rejected,
                   pvars, cvars, lvars>>

\* the pending changes are committed outside the orchestrator
CommitFiles ==
    /\ dirty
    /\ dirty' = FALSE
    /\ last' = [Idle EXCEPT !.op = "env"]
    /\ UNCHANGED <<avars, mem, disk, plan, cfg, ticks_left, fails, reverted, rejected,
                   pvars, cvars, lvars>>

(* ---------------- two processes on one profile file ---------------- *)
(* save_state and load_state take the file lock for the one read or write  *)
(* they make, so each is one step; a tick holds nothing between its        *)
(* load_state and its save_state.                                          *)

SavingPaths == {"loop", "handled", "worker"}

\* process_task(t) in the orchestrator process, first step: self.load_state()
TickLoad(t) ==
    /\ pc.at = "idle"
    /\ ticks_left > 0
    /\ t \in DOMAIN disk.tasks
    /\ mem' = load_state(mem, disk)
    /\ pc' = [at |-> "loaded", task |-> t]
    /\ UNCHANGED <<avars, disk, plan, dirty, cfg, last, ticks_left, fails, reverted, rejected,
                   pvars, cli, persisted, lvars>>

\* process_task(t) in the orchestrator process, the rest: the tick computed
\* on the state loaded earlier, and its save_state
TickSave ==
    /\ pc.at = "loaded"
    /\ \E o \in Outcomes(mem, pc.task) :
          LET res == process_task(mem, pc.task, o)
          IN  /\ mem' = res.mem
              /\ disk' = res.disk
              /\ plan' = res.plan
              /\ dirty' = res.dirty
              /\ persisted' = IF res.path \in SavingPaths
                              THEN persisted \cup DOMAIN res.disk.tasks
                              ELSE persisted
    /\ pc' = [at |-> "idle", task |-> "none"]
    /\ ticks_left' = ticks_left - 1
    /\ UNCHANGED <<avars, cfg, last, fails, reverted, rejected, pvars, cli, lvars>>

\* `orchestrator task`: orch = Orchestrator(), whose constructor loads the
\* profile; the task id is a fresh uuid
CliConstruct(id) ==
    /\ cli.at = "idle"
    /\ id \notin persisted
    /\ cli' = [at |-> "constructed", state |-> load_state(cli.state, disk), id |-> id]
    /\ UNCHANGED <<avars, kvars, pvars, pc, persisted, lvars>>

\* `orchestrator task`: orch.state.tasks[task_id] = new_task; orch.save_state()
CliRegister ==
    /\ cli.at = "constructed"
    /\ LET new == add_task(cli.state, cli.id, Task("PENDING"))
       IN  /\ cli' = [cli EXCEPT !.at = "registered", !.state = new]
           /\ disk' = new
           /\ persisted' = persisted \cup DOMAIN new.tasks
    /\ UNCHANGED <<avars, mem, plan, dirty, cfg, last, ticks_left, fails, reverted, rejected,
                   pvars, pc, lvars>>

\* `orchestrator task`: orch.process_task(task_id), first step
CliTickLoad ==
    /\ cli.at = "registered"
    /\ cli' = [cli EXCEPT !.at = "loaded", !.state = load_state(cli.state, disk)]
    /\ UNCHANGED <<avars, kvars, pvars, pc, persisted, lvars>>

\* `orchestrator task`: orch.process_task(task_id), the rest
CliTickSave ==
    /\ cli.at = "loaded"
    /\ \E o \in Outcomes(cli.state, cli.id) :
          LET res == process_task(cli.state, cli.id, o)
          IN  /\ cli' = [cli EXCEPT !.at = "idle", !.state = res.mem]
              /\ disk' = res.disk
              /\ plan' = res.plan
              /\ dirty' = res.dirty
              /\ persisted' = IF res.path \in SavingPaths
                              THEN persisted \cup DOMAIN res.disk.tasks
                              ELSE persisted
    /\ UNCHANGED <<avars, mem, cfg, last, ticks_left, fails, reverted, rejected,
                   pvars, pc, lvars>>

(* ---------------- the SQL session lock ---------------- *)

Agents == {"agent_a", "agent_b"}
NULL == -1
LockTTL == 5
timeout_minutes == 10

NoCall == [op |-> "none", agent |-> "none", pre_locked_by |-> "NULL", pre_live |-> FALSE]

\* the lock is held and NOW() has not passed its expiry
Live(row) ==
    /\ row.exists
    /\ row.locked_by # "NULL"
    /\ row.lock_expires_at # NULL
    /\ ~(row.lock_expires_at < clock)

Called(op, a) ==
    [ op |-> op, agent |-> a,
      pre_locked_by |-> IF session.exists THEN session.locked_by ELSE "NULL",
      pre_live |-> Live(session) ]

\* PostgreSQLMCPClient.save_session_state: the upsert writes locked_by and
\* lock_expires_at whatever the row held
save_session_state(row, a) ==
    [exists |-> TRUE, locked_by |-> a, lock_expires_at |-> clock + LockTTL]

\* PostgreSQLMCPClient.load_session_state with an agent id: the lock is
\* taken only when it is free or expired
load_session_state(row, a) ==
    IF row.exists /\ (row.locked_by = "NULL"
                      \/ (row.lock_expires_at # NULL /\ row.lock_expires_at < clock))
    THEN [row EXCEPT !.locked_by = a, !.lock_expires_at = clock + LockTTL]
    ELSE row

\* PostgreSQLMCPClient.release_session_lock
release_session_lock(row, a) ==
    IF row.exists /\ row.locked_by = a
    THEN [row EXCEPT !.locked_by = "NULL", !.lock_expires_at = NULL]
    ELSE row

\* PostgreSQLMCPClient.cleanup_stale_locks
cleanup_stale_locks(row) ==
    IF row.exists /\ row.lock_expires_at # NULL
                  /\ row.lock_expires_at < clock - timeout_minutes
    THEN [row EXCEPT !.locked_by = "NULL", !.lock_expires_at = NULL]
    ELSE row

SaveSession(a) ==
    /\ session' = save_session_state(session, a)
    /\ lk_last' = Called("save", a)
    /\ UNCHANGED <<avars, clock, kvars, pvars, cvars>>

LoadSession(a) ==
    /\ session' = load_session_state(session, a)
    /\ lk_last' = Called("load", a)
    /\ UNCHANGED <<avars, clock, kvars, pvars, cvars>>

ReleaseLock(a) ==
    /\ session' = release_session_lock(session, a)
    /\ lk_last' = Called("release", a)
    /\ UNCHANGED <<avars, clock, kvars, pvars, cvars>>

CleanupStaleLocks ==
    /\ session' = cleanup_stale_locks(session)
    /\ lk_last' = Called("cleanup", "none")
    /\ UNCHANGED <<avars, clock, kvars, pvars, cvars>>

\* a minute passes
Minute ==
    /\ clock < MaxClock
    /\ clock' = clock + 1
    /\ lk_last' = NoCall
    /\ UNCHANGED <<avars, session, kvars, pvars, cvars>>

(* ---------------- initial states ---------------- *)

\* the dispatch-flag profiles of the first task
SeedTasks ==
    LET p == Task("PENDING")
    IN  { p,
          [p EXCEPT !.context_needed = TRUE],
          [p EXCEPT !.requires_consensus = TRUE, !.requires_debate = TRUE],
          [p EXCEPT !.verification_required = TRUE, !.tests_failing = TRUE],
          [p EXCEPT !.git_commit_ready = TRUE, !.git_branch_name = TRUE],
          [p EXCEPT !.git_create_pr = TRUE, !.git_auto_push = TRUE,
                    !.git_branch_name = TRUE],
          [p EXCEPT !.git_commit_ready = TRUE, !.role_triggered = TRUE] }

Configs ==
    { [strict |-> TRUE, git |-> TRUE, agentic |-> FALSE],
      [strict |-> FALSE, git |-> TRUE, agentic |-> FALSE],
      [strict |-> TRUE, git |-> FALSE, agentic |-> FALSE],
      [strict |-> TRUE, git |-> TRUE, agentic |-> TRUE] }

\* no edits, no second process, no session row
(* ---------------- GitRoleDispatcher ---------------- *)

Roles == {"project_lifecycle", "issue_triage", "feature_scout", "code_auditor",
          "branch_manager"}

default_order ==
    <<"project_lifecycle", "issue_triage", "feature_scout", "code_auditor",
      "branch_manager">>

\* what the telemetry store holds for a role: success rate of its provenance
\* events in tenths, average duration of its tool_use events in seconds
NoTelemetry == [rate |-> 10, avg |-> 0]
RoleStats == {NoTelemetry, [rate |-> 0, avg |-> 0], [rate |-> 4, avg |-> 10]}

max_duration == 10
PI_TRIP == 30

\* performance index in hundredths: rate * 0.7 + speed * 0.3
get_performance_index(s) ==
    LET capped == IF s.avg < max_duration THEN s.avg ELSE max_duration
        speed_score == IF s.avg > 0 THEN 10 - capped ELSE 10
    IN  s.rate * 7 + speed_score * 3

should_skip_role_lenient(s) == get_performance_index(s) < PI_TRIP - 5

should_skip_role(s) == get_performance_index(s) < PI_TRIP

Without(seq, i) == SubSeq(seq, 1, i - 1) \o SubSeq(seq, i + 1, Len(seq))

\* stable sort by performance index, highest first
RECURSIVE sort_by_pi(_, _)
sort_by_pi(seq, st) ==
    IF seq = <<>> THEN <<>>
    ELSE LET pi(i) == get_performance_index(st[seq[i]])
             first == CHOOSE i \in 1..Len(seq) :
                          /\ \A j \in 1..Len(seq) : pi(i) >= pi(j)
                          /\ \A j \in 1..(i - 1) : pi(j) < pi(i)
         IN  <<seq[first]>> \o sort_by_pi(Without(seq, first), st)

get_optimized_execution_order(st) == sort_by_pi(default_order, st)

ExitReport(role, status) == [role |-> role, status |-> status]

\* the loop of dispatch over the execution order; triggered is the set of
\* roles whose trigger_check holds for the task, raising the set of roles
\* whose execute raises
RECURSIVE run_roles(_, _, _, _)
run_roles(order, st, triggered, raising) ==
    IF order = <<>> THEN [reports |-> <<>>, executed |-> <<>>]
    ELSE LET role == Head(order)
             rest == run_roles(Tail(order), st, triggered, raising)
         IN  IF should_skip_role(st[role])
             THEN [rest EXCEPT !.reports = <<ExitReport(role, "SKIPPED")>> \o @]
             ELSE IF role \in triggered
             THEN [reports |-> <<ExitReport(role, IF role \in raising THEN "FAILED"
                                                   ELSE "COMPLETED")>> \o rest.reports,
                   executed |-> <<role>> \o rest.executed]
             ELSE rest

dispatch(st, triggered, raising) ==
    run_roles(get_optimized_execution_order(st), st, triggered, raising)

NoDispatch == [called |-> FALSE, triggered |-> {}, reports |-> <<>>, executed |-> <<>>]

\* one call of dispatch for a task; at most one role raises
Dispatch(triggered, raising) ==
    /\ raising \subseteq triggered
    /\ Cardinality(raising) <= 1
    /\ LET res == dispatch(telemetry, triggered, raising)
       IN  rd' = [called |-> TRUE, triggered |-> triggered,
                  reports |-> res.reports, executed |-> res.executed]
    /\ UNCHANGED <<xvars, telemetry, bvars, prvars, mvars, kvars, pvars, cvars, lvars>>

(* ---------------- DebateEngine ---------------- *)

AgentLists == {<<"a">>, <<"a", "b", "c">>}
Topologies == {"ring", "pairs", "tree"}
Texts == {"x", "y"}

\* maps from some of the agents a, b, c to a draft text
DraftMaps == UNION {[as -> Texts] : as \in SUBSET {"a", "b", "c"}}

\* active_debates without the debate id
NoDebate ==
    [exists |-> FALSE, agents |-> <<>>, phase |-> "none", current_round |-> 0,
     drafts |-> EmptyMap, critiques |-> <<>>, revisions |-> EmptyMap,
     topology |-> "none"]

\* revisions holds, per agent, the number of revisions recorded for it
DebateState(agents, topology) ==
    [exists |-> TRUE, agents |-> agents, phase |-> "BLIND_DRAFT", current_round |-> 0,
     drafts |-> EmptyMap, critiques |-> <<>>, revisions |-> EmptyMap,
     topology |-> topology]

Returned(state) == [state |-> state, raised |-> FALSE]
Raised(state) == [state |-> state, raised |-> TRUE]

start_debate(state, agents, topology) ==
    IF Len(agents) < 2 THEN Raised(state)
    ELSE Returned(DebateState(agents, topology))

blind_draft_phase_unchecked(state, drafts) ==
    IF ~state.exists THEN Raised(state)
    ELSE Returned([state EXCEPT !.drafts = drafts, !.phase = "CRITIQUE"])

blind_draft_phase(state, drafts) ==
    IF ~state.exists THEN Raised(state)
    ELSE IF state.phase # "BLIND_DRAFT" THEN Raised(state)
    ELSE Returned([state EXCEPT !.drafts = drafts, !.phase = "CRITIQUE"])

RECURSIVE tree_pairings(_, _)
tree_pairings(agents, i) ==
    IF i >= Len(agents) THEN <<>>
    ELSE LET left == 2 * i + 1
             right == 2 * i + 2
         IN  (IF left < Len(agents) THEN <<<<agents[i + 1], agents[left + 1]>>>> ELSE <<>>)
             \o (IF right < Len(agents) THEN <<<<agents[i + 1], agents[right + 1]>>>> ELSE <<>>)
             \o tree_pairings(agents, i + 1)

get_topology_pairings(state) ==
    LET agents == state.agents
        n == Len(agents)
        mid == n \div 2
    IN  CASE state.topology = "ring" ->
                [i \in 1..n |-> <<agents[i], agents[(i % n) + 1]>>]
          [] state.topology = "pairs" ->
                [i \in 1..mid |-> <<agents[i], agents[mid + i]>>]
          [] state.topology = "tree" -> tree_pairings(agents, 0)
          [] OTHER -> <<>>

Critique(from_agent, to_agent, round_num) ==
    [from_agent |-> from_agent, to_agent |-> to_agent, round_num |-> round_num]

\* the loop over the pairings: a target without a draft, or a critique
\* function that raises, ends it with the critiques appended so far
RECURSIVE critique_loop(_, _, _)
critique_loop(state, pairings, fn) ==
    IF pairings = <<>> THEN Returned([state EXCEPT !.phase = "REVISION"])
    ELSE LET critic_id == Head(pairings)[1]
             target_id == Head(pairings)[2]
         IN  IF target_id \notin DOMAIN state.drafts \/ fn = "raises"
             THEN Raised(state)
             ELSE critique_loop(
                      [state EXCEPT !.critiques =
                           Append(@, Critique(critic_id, target_id, state.current_round))],
                      Tail(pairings), fn)

sparse_critique_phase(state, fn) ==
    IF ~state.exists THEN Raised(state)
    ELSE IF state.phase # "CRITIQUE" THEN Raised(state)
    ELSE critique_loop(state, get_topology_pairings(state), fn)

revision_phase_no_limit(state, revisions) ==
    IF ~state.exists THEN Raised(state)
    ELSE IF state.phase # "REVISION" THEN Raised(state)
    ELSE LET submitted == DOMAIN revisions
             old_draft(a) == IF a \in DOMAIN state.drafts THEN state.drafts[a] ELSE ""
             unchanged_count == Cardinality({a \in submitted : old_draft(a) = revisions[a]})
             recorded(a) == IF a \in DOMAIN state.revisions THEN state.revisions[a] ELSE 0
             current_round == state.current_round + 1
             converged == unchanged_count >= Len(state.agents) - 1
         IN  Returned([state EXCEPT
                 !.revisions = [a \in DOMAIN state.revisions \cup submitted |->
                                   IF a \in submitted THEN recorded(a) + 1 ELSE recorded(a)],
                 !.drafts = [a \in DOMAIN state.drafts \cup submitted |->
                                IF a \in submitted THEN revisions[a] ELSE state.drafts[a]],
                 !.current_round = current_round,
                 !.phase = IF converged THEN "CONVERGED" ELSE "CRITIQUE"])

revision_phase(state, revisions) ==
    IF ~state.exists THEN Raised(state)
    ELSE IF state.phase # "REVISION" THEN Raised(state)
    ELSE LET submitted == DOMAIN revisions
             old_draft(a) == IF a \in DOMAIN state.drafts THEN state.drafts[a] ELSE ""
             unchanged_count == Cardinality({a \in submitted : old_draft(a) = revisions[a]})
             recorded(a) == IF a \in DOMAIN state.revisions THEN state.revisions[a] ELSE 0
             current_round == state.current_round + 1
             converged == IF unchanged_count >= Len(state.agents) - 1 THEN TRUE
                          ELSE current_round >= max_rounds
         IN  Returned([state EXCEPT
                 !.revisions = [a \in DOMAIN state.revisions \cup submitted |->
                                   IF a \in submitted THEN recorded(a) + 1 ELSE recorded(a)],
                 !.drafts = [a \in DOMAIN state.drafts \cup submitted |->
                                IF a \in submitted THEN revisions[a] ELSE state.drafts[a]],
                 !.current_round = current_round,
                 !.phase = IF converged THEN "CONVERGED" ELSE "CRITIQUE"])

NoDebateCall ==
    [op |-> "none", phase_before |-> "none", existed |-> FALSE, raised |-> FALSE,
     changed |-> FALSE, same |-> 0]

\* the draft an agent stands on: none before it has submitted one
DraftOf(state, a) == IF a \in DOMAIN state.drafts THEN state.drafts[a] ELSE "none"

\* the record of a call: what it was made on, whether it raised, whether it
\* changed the debate, and how many agents' drafts it left as they were
DebateCall(op, res) ==
    [op |-> op, phase_before |-> debate.phase, existed |-> debate.exists,
     raised |-> res.raised, changed |-> res.state # debate,
     same |-> Cardinality({i \in 1..Len(debate.agents) :
                  DraftOf(res.state, debate.agents[i]) = DraftOf(debate, debate.agents[i])})]

StartDebate(agents, topology) ==
    LET res == start_debate(debate, agents, topology)
    IN  /\ debate' = res.state
        /\ db_last' = DebateCall("start_debate", res)
        /\ UNCHANGED <<xvars, dvars, prvars, mvars, kvars, pvars, cvars, lvars>>

BlindDraft(drafts) ==
    LET res == blind_draft_phase(debate, drafts)
    IN  /\ debate' = res.state
        /\ db_last' = DebateCall("blind_draft_phase", res)
        /\ UNCHANGED <<xvars, dvars, prvars, mvars, kvars, pvars, cvars, lvars>>

\* the critique list is capped at MaxCritiques entries
SparseCritique(fn) ==
    LET res == sparse_critique_phase(debate, fn)
    IN  /\ Len(res.state.critiques) <= MaxCritiques
        /\ debate' = res.state
        /\ db_last' = DebateCall("sparse_critique_phase", res)
        /\ UNCHANGED <<xvars, dvars, prvars, mvars, kvars, pvars, cvars, lvars>>

Revision(revisions) ==
    LET res == revision_phase(debate, revisions)
    IN  /\ debate' = res.state
        /\ db_last' = DebateCall("revision_phase", res)
        /\ UNCHANGED <<xvars, dvars, prvars, mvars, kvars, pvars, cvars, lvars>>

DebateQuiet ==
    /\ debate = NoDebate
    /\ db_last = NoDebateCall

(* ---------------- ContextPruner ---------------- *)

\* provenance entries as the pruner sees them; two entries of a log may be equal
Signatures == {"s1", "s2"}
Scores == {0, 1}
Providers == {"none", "embeds", "raises"}

\* positions of seq[-k:] and of seq[:-k] in a list of n items
tail_slice_short(n, k) ==
    IF k = 0 THEN 1..n ELSE ((IF n > k - 1 THEN n - (k - 1) ELSE 0) + 1)..n

tail_slice(n, k) ==
    IF k = 0 THEN 1..n ELSE ((IF n > k THEN n - k ELSE 0) + 1)..n

head_slice(n, k) ==
    IF k = 0 THEN {} ELSE 1..(IF n > k THEN n - k ELSE 0)

\* the positions of a set in ascending order
RECURSIVE sorted(_)
sorted(S) ==
    IF S = {} THEN <<>>
    ELSE LET least == CHOOSE i \in S : \A j \in S : i <= j
         IN  <<least>> \o sorted(S \ {least})

\* list.sort(key=score, reverse=True): highest score first, equal scores in
\* their original order
RECURSIVE rank_order(_, _)
rank_order(S, score) ==
    IF S = {} THEN <<>>
    ELSE LET best == CHOOSE i \in S :
                         \A j \in S : score[i] > score[j] \/ (score[i] = score[j] /\ i <= j)
         IN  <<best>> \o rank_order(S \ {best}, score)

Range(seq) == {seq[i] : i \in 1..Len(seq)}

top_k_indices_ranked(candidates, score, k) ==
    LET ranked_with_index == rank_order(candidates, score)
    IN  SubSeq(ranked_with_index, 1, IF k < Len(ranked_with_index) THEN k
                                     ELSE Len(ranked_with_index))

top_k_indices(candidates, score, k) ==
    LET ranked_with_index == rank_order(candidates, score)
    IN  sorted(Range(SubSeq(ranked_with_index, 1,
                            IF k < Len(ranked_with_index) THEN k
                            ELSE Len(ranked_with_index))))

\* prune as the positions of the input log it returns, in the order returned;
\* similarity gives the cosine similarity of an entry's text to the query
prune_log(log, similarity, provider, tail_n, relevant_n) ==
    LET n == Len(log)
        total_keep == tail_n + relevant_n
        tail == sorted(tail_slice(n, tail_n))
        candidates == head_slice(n, tail_n)
        score == [i \in candidates |-> similarity[log[i]]]
    IN  IF n = 0 THEN <<>>
        ELSE IF n <= total_keep THEN sorted(1..n)
        ELSE IF provider = "none" THEN sorted(tail_slice(n, total_keep))
        ELSE IF provider = "raises" THEN sorted(tail_slice(n, total_keep))
        ELSE top_k_indices(candidates, score, relevant_n) \o tail

\* the entries at the given positions
Entries(log, idx) == [i \in 1..Len(idx) |-> log[idx[i]]]

Logs == UNION {[1..n -> Signatures] : n \in 0..MaxLog}

NoPrune == [called |-> FALSE, idx |-> <<>>]

PruneCall ==
    /\ ~pout.called
    /\ pout' = [called |-> TRUE,
                idx |-> prune_log(pin.log, pin.similarity, pin.provider,
                                  pin.keep_tail, pin.keep_relevant)]
    /\ UNCHANGED <<xvars, pin, dvars, bvars, mvars, kvars, pvars, cvars, lvars>>

PrunerQuiet ==
    /\ pin = [log |-> <<>>, similarity |-> [e \in Signatures |-> 0], provider |-> "none",
              keep_tail |-> keep_tail, keep_relevant |-> keep_relevant]
    /\ pout = NoPrune

(* ---------------- inbound sync of one plan entry ---------------- *)

Statuses == {"PENDING", "IN_PROGRESS", "COMPLETED", "FAILED"}
PlanFlags == {"git_commit_ready", "git_create_pr", "tests_failing"}

\* the part of a Task the bridge reads and writes
BoardTask(status, worker, files, flags) ==
    [status |-> status, assigned_worker |-> worker, input_files |-> files,
     git_commit_ready |-> flags["git_commit_ready"],
     git_create_pr |-> flags["git_create_pr"],
     tests_failing |-> flags["tests_failing"]]

BoardTasks ==
    {BoardTask(st, "architect", files, flags) :
        st \in Statuses, files \in {<<>>, <<"a.py">>}, flags \in [PlanFlags -> BOOLEAN]}

\* a plan entry: the checkbox, the @role, the text after "Context:" and the
\* key=value pairs after "Flags:" ("absent" when the entry has no such line,
\* "blank" when nothing follows the colon)
FlagLines ==
    {[line |-> "absent", pairs |-> EmptyMap], [line |-> "blank", pairs |-> EmptyMap]}
    \cup {[line |-> "pairs", pairs |-> m] :
             m \in UNION {[ks -> {"True", "False"}] : ks \in SUBSET PlanFlags} \ {EmptyMap}}

PlanEntries ==
    [mark : {" ", "x", "/"}, role : {"none", "auditor"},
     context : {"absent", "blank", "b.py"},
     flags : FlagLines]

\* MarkdownBridge.parse_file for one entry; a blank Flags line makes split("=")
\* yield one part and the unpacking raise
parse_entry(e) ==
    LET status == IF e.mark = "x" THEN "COMPLETED"
                  ELSE IF e.mark = "/" THEN "IN_PROGRESS" ELSE "PENDING"
        role == IF e.role = "none" THEN "engineer" ELSE e.role
        files == IF e.context = "absent" THEN <<>>
                 ELSE IF e.context = "blank" THEN <<"">> ELSE <<e.context>>
        flag(k) == IF k \in DOMAIN e.flags.pairs THEN e.flags.pairs[k] = "True" ELSE FALSE
    IN  [raised |-> e.flags.line = "blank",
         task |-> BoardTask(status, role, files, [k \in PlanFlags |-> flag(k)])]

\* the update of an existing task in SyncEngine.sync_inbound
merge_existing(t_old, t_new) ==
    [t_old EXCEPT
        !.input_files = IF t_new.input_files # <<>> THEN t_new.input_files ELSE @,
        !.assigned_worker = t_new.assigned_worker,
        !.status = IF t_new.status # "PENDING" THEN t_new.status ELSE @,
        !.git_commit_ready = t_new.git_commit_ready,
        !.git_create_pr = t_new.git_create_pr]

NoTask == BoardTask("PENDING", "none", <<>>, [k \in PlanFlags |-> FALSE])

NoSync == [done |-> FALSE, failed |-> FALSE, before |-> NoTask, parsed |-> NoTask]

\* sync_inbound on a plan holding the entry: a parse error is caught, logged,
\* and nothing is merged
SyncEntry ==
    /\ ~sync_last.done
    /\ LET p == parse_entry(entry)
       IN  /\ board' = IF p.raised THEN board ELSE merge_existing(board, p.task)
           /\ sync_last' = [done |-> TRUE, failed |-> p.raised, before |-> board,
                            parsed |-> p.task]
    /\ UNCHANGED <<xvars, entry, dvars, bvars, prvars, kvars, pvars, cvars, lvars>>

MergeQuiet ==
    /\ board = BoardTask("PENDING", "architect", <<>>, [k \in PlanFlags |-> FALSE])
    /\ entry = [mark |-> " ", role |-> "none", context |-> "absent",
                flags |-> [line |-> "absent", pairs |-> EmptyMap]]
    /\ sync_last = NoSync

(* ---------------- MarkdownBridge: generate and parse ---------------- *)

\* assigned_worker values: none, a role of word characters, a hyphenated role
Workers == {"none", "engineer", "git-writer"}

\* what the pattern @(\w+) matches of "@" followed by the role, and what is left
word_of(worker) == IF worker = "git-writer" THEN "git" ELSE worker
rest_of(worker) == IF worker = "git-writer" THEN <<"-writer">> ELSE <<>>

\* a file name is the list of its comma-free parts: <<"a.py">> is "a.py",
\* <<"x", "y.py">> is "x,y.py"
FileLists == {<<>>, <<<<"a.py">>>>, <<<<"x", "y.py">>>>, <<<<"a.py">>, <<"b.py">>>>}

\* the fields of a Task that the bridge renders; a description is a list of words
PlanTask(description, status, worker, files, ready, pr) ==
    [description |-> description, status |-> status, assigned_worker |-> worker,
     input_files |-> files, git_commit_ready |-> ready, git_create_pr |-> pr]

PlanTasks(d) ==
    {PlanTask(<<d>>, st, w, files, ready, pr) :
        st \in Statuses, w \in Workers, files \in FileLists,
        ready \in BOOLEAN, pr \in BOOLEAN}

checkbox_two_marks(status) == IF status = "COMPLETED" THEN "x" ELSE " "

checkbox(status) ==
    IF status = "COMPLETED" THEN "x" ELSE IF status = "IN_PROGRESS" THEN "/" ELSE " "

RECURSIVE flatten(_)
flatten(seqs) == IF seqs = <<>> THEN <<>> ELSE Head(seqs) \o flatten(Tail(seqs))

\* _render_task: the task line and its children.  text is the description
\* followed by " @role"; context holds what follows "Context:" as the list of
\* its comma-separated pieces; flags the pairs that follow "Flags:"
render_line(t) ==
    [mark |-> checkbox(t.status),
     text |-> [words |-> t.description, at |-> t.assigned_worker],
     context |-> [present |-> t.input_files # <<>>, pieces |-> flatten(t.input_files)],
     flags |-> {k \in {"git_commit_ready", "git_create_pr"} : t[k]}]

RECURSIVE select_status(_, _)
select_status(tasks, sts) ==
    IF tasks = <<>> THEN <<>>
    ELSE (IF Head(tasks).status \in sts THEN <<Head(tasks)>> ELSE <<>>)
         \o select_status(Tail(tasks), sts)

\* generate_markdown: the Todo, In Progress and Completed sections in turn
generate_markdown(tasks) ==
    LET doc == select_status(tasks, {"PENDING", "FAILED"})
               \o select_status(tasks, {"IN_PROGRESS"})
               \o select_status(tasks, {"COMPLETED"})
    IN  [i \in 1..Len(doc) |-> render_line(doc[i])]

\* parse_file for one task line with its children
parse_line(l) ==
    LET status == IF l.mark = "x" THEN "COMPLETED"
                  ELSE IF l.mark = "/" THEN "IN_PROGRESS" ELSE "PENDING"
        role == IF l.text.at = "none" THEN "engineer" ELSE word_of(l.text.at)
        full_desc == IF l.text.at = "none" THEN l.text.words
                     ELSE l.text.words \o rest_of(l.text.at)
        files == IF l.context.present
                 THEN [i \in 1..Len(l.context.pieces) |-> <<l.context.pieces[i]>>]
                 ELSE <<>>
    IN  PlanTask(full_desc, status, role, files,
                 "git_commit_ready" \in l.flags, "git_create_pr" \in l.flags)

parse_file(doc) == [i \in 1..Len(doc) |-> parse_line(doc[i])]

NoRoundTrip == [done |-> FALSE, doc |-> <<>>, parsed |-> <<>>]

\* generate_markdown on the tasks, then parse_file on the document
RoundTrip ==
    /\ ~rt_out.done
    /\ LET doc == generate_markdown(rt_in)
       IN  rt_out' = [done |-> TRUE, doc |-> doc, parsed |-> parse_file(doc)]
    /\ UNCHANGED <<rt_in, svars, gvars, wvars, gwvars, hvars, spvars, vtvars, clvars, fvars, cxvars, oldvars>>

\* SyncEngine.sync_inbound on the task list: existing_map is built from the
\* tasks once, by description (of equal descriptions the last one wins); an
\* imported task with a known description updates that task, any other is
\* added by add_task
RECURSIVE sync_tasks(_, _, _)
sync_tasks(tasks, known, imported) ==
    IF imported = <<>> THEN tasks
    ELSE LET t_new == Head(imported)
             hits == {i \in 1..Len(known) : known[i].description = t_new.description}
             hit == CHOOSE i \in hits : \A j \in hits : j <= i
         IN  IF hits # {}
             THEN sync_tasks([tasks EXCEPT ![hit] = merge_existing(@, t_new)],
                             known, Tail(imported))
             ELSE sync_tasks(Append(tasks, t_new), known, Tail(imported))

\* sync_outbound writes the plan from the blackboard, then sync_inbound reads
\* the plan nobody touched back into the blackboard
OutboundInbound ==
    /\ ~rt_out.done
    /\ LET doc == generate_markdown(rt_in)
           imported == parse_file(doc)
       IN  /\ rt_out' = [done |-> TRUE, doc |-> doc, parsed |-> imported]
           /\ rt_in' = sync_tasks(rt_in, rt_in, imported)
    /\ UNCHANGED <<svars, gvars, wvars, gwvars, hvars, spvars, vtvars, clvars, fvars, cxvars, oldvars>>

RoundTripQuiet ==
    /\ rt_in = <<>>
    /\ rt_out = NoRoundTrip

(* ---------------- load_state and save_state over both backends ---------------- *)

\* a profile is the set of its task ids; ProjectProfile() has none
Fresh == {}
Profiles == SUBSET Tasks

NoRow == [exists |-> FALSE, data |-> Fresh]
Row(profile) == [exists |-> TRUE, data |-> profile]

NoFile == [state |-> "missing", data |-> Fresh]
File(profile) == [state |-> "written", data |-> profile]
Corrupt == [state |-> "corrupt", data |-> Fresh]

\* load_state: sql is "ok" or "raises" (query error, timeout), lock is "ok" or
\* "timeout" for the FileLock.  Gives the state after the call and what each
\* backend returned.
load_state_backends(state, row, file, enabled, sql, lock) ==
    LET from_sql == IF ~enabled THEN "skipped"
                    ELSE IF sql = "raises" THEN "raised"
                    ELSE IF row.exists THEN "profile" ELSE "empty"
        from_file == IF from_sql = "profile" THEN "skipped"
                     ELSE IF file.state = "missing" THEN "missing"
                     ELSE IF lock = "timeout" \/ file.state = "corrupt" THEN "failed"
                     ELSE "profile"
    IN  [mem |-> IF from_sql = "profile" THEN row.data
                 ELSE IF from_file = "profile" THEN file.data
                 ELSE state,
         sql |-> from_sql, file |-> from_file, raised |-> FALSE]

\* save_state: write is "ok", "timeout" (FileLock not acquired in 5 s),
\* "refused" (open fails) or "torn" (the write fails after open truncated the file)
save_state_backends(state, row, file, enabled, sql, write) ==
    [row |-> IF enabled /\ sql = "ok" THEN Row(state) ELSE row,
     file |-> IF write = "ok" THEN File(state)
              ELSE IF write = "torn" THEN Corrupt ELSE file,
     sql |-> IF ~enabled THEN "skipped" ELSE IF sql = "ok" THEN "saved" ELSE "raised",
     file_result |-> IF write = "ok" THEN "saved" ELSE "failed",
     raised |-> FALSE]

NoIO == [op |-> "none", sql |-> "skipped", file |-> "skipped", raised |-> FALSE,
         before |-> Fresh]

StoreLoad(sql, lock) ==
    LET res == load_state_backends(smem, srow, sfile, sql_enabled, sql, lock)
    IN  /\ smem' = res.mem
        /\ io_last' = [op |-> "load", sql |-> res.sql, file |-> res.file,
                       raised |-> res.raised, before |-> smem]
        /\ UNCHANGED <<srow, sfile, sql_enabled, rtvars, gvars, wvars, gwvars, hvars, spvars, vtvars, clvars, fvars, cxvars, oldvars>>

StoreSave(sql, write) ==
    LET res == save_state_backends(smem, srow, sfile, sql_enabled, sql, write)
    IN  /\ srow' = res.row
        /\ sfile' = res.file
        /\ io_last' = [op |-> "save", sql |-> res.sql, file |-> res.file_result,
                       raised |-> res.raised, before |-> smem]
        /\ UNCHANGED <<smem, sql_enabled, rtvars, gvars, wvars, gwvars, hvars, spvars, vtvars, clvars, fvars, cxvars, oldvars>>

\* the kernel registers a task in memory
StoreAddTask(t) ==
    /\ t \notin smem
    /\ smem' = smem \cup {t}
    /\ io_last' = [NoIO EXCEPT !.op = "add"]
    /\ UNCHANGED <<srow, sfile, sql_enabled, rtvars, gvars, wvars, gwvars, hvars, spvars, vtvars, clvars, fvars, cxvars, oldvars>>

\* the profile file is removed from outside the program
StoreFileRemoved ==
    /\ sfile.state # "missing"
    /\ sfile' = NoFile
    /\ io_last' = [NoIO EXCEPT !.op = "removed"]
    /\ UNCHANGED <<smem, srow, sql_enabled, rtvars, gvars, wvars, gwvars, hvars, spvars, vtvars, clvars, fvars, cxvars, oldvars>>

StoreQuiet ==
    /\ smem = Fresh
    /\ srow = NoRow
    /\ sfile = NoFile
    /\ sql_enabled = FALSE
    /\ io_last = NoIO

RolesQuiet ==
    /\ telemetry = [r \in Roles |-> NoTelemetry]
    /\ rd = NoDispatch

(* ---------------- TelemetryCollector.record_provenance ---------------- *)

\* the roles AuthorSignature.role admits
SignatureRoles == {"architect", "engineer", "auditor", "system"}

\* the roles record_provenance is called with: the kernel's and the git roles'
ProvenanceRoles ==
    SignatureRoles \cup {"feature_scout", "code_auditor", "issue_triage",
                         "branch_manager", "project_lifecycle", "git-writer"}

\* AuthorSignature(role=...): pydantic validates the Literal
AuthorSignature(role) ==
    IF role \in SignatureRoles THEN [valid |-> TRUE, role |-> role]
    ELSE [valid |-> FALSE, role |-> role]

\* record_provenance: the signature is built before the try; only
\* buffer.add_event is inside it
collector_record_provenance(buffer, role, accepts) ==
    LET sig == AuthorSignature(role)
    IN  IF ~sig.valid
        THEN [buffer |-> buffer, raised |-> TRUE, signed |-> FALSE]
        ELSE [buffer |-> IF accepts THEN Append(buffer, role) ELSE buffer,
              raised |-> FALSE, signed |-> TRUE]

NoProvenance == [called |-> FALSE, role |-> "system", accepts |-> TRUE,
                 raised |-> FALSE, signed |-> FALSE]

RecordProvenance(role, accepts) ==
    LET res == collector_record_provenance(pbuf, role, accepts)
    IN  /\ Len(pbuf) < MaxEvents
        /\ pbuf' = res.buffer
        /\ prov_last' = [called |-> TRUE, role |-> role, accepts |-> accepts,
                         raised |-> res.raised, signed |-> res.signed]
        /\ UNCHANGED <<rtvars, svars, wvars, gwvars, hvars, spvars, vtvars, clvars, fvars, cxvars, oldvars>>

ProvQuiet ==
    /\ pbuf = <<>>
    /\ prov_last = NoProvenance

(* ---------------- llm.generate_response and the profile file ---------------- *)

GEMINI_CASCADE == <<"gemini-3-flash-preview", "gemini-2.5-flash", "gemini-2.5-pro">>

\* model aliases in worker_models: the cascade, the kernel's fallback alias
\* and a local model
Aliases == Range(GEMINI_CASCADE) \cup {"gemini-pro", "llama-3.2-3b"}

\* "gemini" in alias or "flash" in alias or "pro" in alias
is_gemini(alias) == alias \in Range(GEMINI_CASCADE) \cup {"gemini-pro"}

\* the entries of worker_models the kernel calls generate_response with
ModelKeys == {"default", "git-writer"}

\* ProjectProfile().worker_models
default_models ==
    [k \in ModelKeys |-> IF k = "default" THEN "gemini-3-flash-preview" ELSE "llama-3.2-3b"]

NoProfileFile == [exists |-> FALSE, models |-> default_models]

\* generate_response, Gemini branch: the first model tried that answers, or
\* "none" (OpenAI fallback or mock response)
answering_model(alias, key, working) ==
    LET models_to_try == IF alias \in Range(GEMINI_CASCADE) THEN <<alias>>
                         ELSE GEMINI_CASCADE
        hits == {i \in DOMAIN models_to_try : models_to_try[i] \in working}
    IN  IF key /\ is_gemini(alias) /\ hits # {}
        THEN models_to_try[CHOOSE i \in hits : \A j \in hits : i <= j]
        ELSE "none"

\* _update_working_model: rewrites the file when it exists and its default differs
update_working_model(file, model, lock) ==
    IF lock = "ok" /\ file.exists /\ file.models["default"] # model
    THEN [file EXCEPT !.models["default"] = model]
    ELSE file

\* generate_response as far as the profile file is concerned
generate_response(file, alias, key, working, lock) ==
    LET model == answering_model(alias, key, working)
    IN  IF model # "none" /\ model # alias
        THEN update_working_model(file, model, lock)
        ELSE file

NoFileOp == [op |-> "none", wrote |-> FALSE, alias |-> "gemini-3-flash-preview",
             model |-> "none"]

\* save_state writes worker_models with the rest of the profile
ModelSave ==
    /\ wfile' = [exists |-> TRUE, models |-> wmem]
    /\ w_last' = [NoFileOp EXCEPT !.op = "save", !.wrote = TRUE]
    /\ UNCHANGED <<wmem, rtvars, svars, gvars, gwvars, hvars, spvars, vtvars, clvars, fvars, cxvars, oldvars>>

\* load_state reads it back
ModelLoad ==
    /\ wmem' = IF wfile.exists THEN wfile.models ELSE wmem
    /\ w_last' = [NoFileOp EXCEPT !.op = "load"]
    /\ UNCHANGED <<wfile, rtvars, svars, gvars, gwvars, hvars, spvars, vtvars, clvars, fvars, cxvars, oldvars>>

\* process_task and the git workflow call generate_response with the model
\* of one entry of worker_models
LLMCall(k, key, working, lock) ==
    /\ wfile' = generate_response(wfile, wmem[k], key, working, lock)
    /\ w_last' = [op |-> "llm", wrote |-> wfile' # wfile, alias |-> wmem[k],
                  model |-> answering_model(wmem[k], key, working)]
    /\ UNCHANGED <<wmem, rtvars, svars, gvars, gwvars, hvars, spvars, vtvars, clvars, fvars, cxvars, oldvars>>

ModelQuiet ==
    /\ wmem = default_models
    /\ wfile = NoProfileFile
    /\ w_last = NoFileOp

(* ---------------- _handle_git_workflow: commit, push and PR steps ---------------- *)

\* a command line is the list of its words; the shell joins them with spaces
CommandLines ==
    { <<"git", "status">>, <<"git", "add", ";", "rm">>, <<"rm", "x">>, <<"git">> }

\* cmd.startswith("git ")
starts_with_git(cmd) == Len(cmd) > 1 /\ cmd[1] = "git"

\* the programs a shell starts for a command line: the first word of the
\* line and the word after every ";"
programs(cmd) ==
    {cmd[i] : i \in {j \in DOMAIN cmd : cmd[j] # ";" /\ (j = 1 \/ cmd[j - 1] = ";")}}

\* a tool call of the LLM response.  outcome: "ok", "exit_nonzero" (the
\* subprocess fails) or "bad_json" (tool.arguments does not parse)
ToolCall(function, cmd, outcome) == [function |-> function, cmd |-> cmd, outcome |-> outcome]

ToolCalls ==
    {ToolCall("run_command", c, o) : c \in CommandLines, o \in {"ok", "exit_nonzero"}}
    \cup {ToolCall(f, <<>>, o) : f \in {"git_add", "git_commit"},
                                 o \in {"ok", "exit_nonzero"}}
    \cup {ToolCall("git_commit", <<>>, "bad_json"), ToolCall("rm", <<>>, "ok")}

\* Orchestrator._execute_git_tool on one call: the command line handed to a
\* shell (or <<>>), the argv run without a shell (or <<>>), the provenance
\* action recorded (or "none") and whether the call raised
execute_git_tool_call(call) ==
    LET nothing == [shell |-> <<>>, argv |-> <<>>, prov |-> "none", raised |-> FALSE]
    IN  CASE call.function = "run_command" ->
                 IF ~starts_with_git(call.cmd) THEN nothing
                 ELSE [nothing EXCEPT !.shell = call.cmd]
          [] call.function = "git_add" ->
                 [nothing EXCEPT !.argv = <<"git", "add">>,
                                 !.raised = (call.outcome = "exit_nonzero")]
          [] call.function = "git_commit" ->
                 IF call.outcome = "exit_nonzero"
                 THEN [nothing EXCEPT !.argv = <<"git", "commit">>, !.raised = TRUE]
                 ELSE [nothing EXCEPT !.argv = <<"git", "commit">>, !.prov = "git_commit"]
          [] call.function = "git_push" ->
                 [nothing EXCEPT !.argv = <<"git", "push">>,
                                 !.raised = (call.outcome = "exit_nonzero")]
          [] OTHER -> nothing

\* the same turn where the first raise leaves the loop
run_tool_call_abort(acc, call, i) ==
    IF acc.raised # {} THEN acc
    ELSE LET res == IF call.outcome = "bad_json"
                    THEN [shell |-> <<>>, argv |-> <<>>, prov |-> "none", raised |-> TRUE]
                    ELSE execute_git_tool_call(call)
         IN  [acc EXCEPT
                !.shell = IF res.shell # <<>> THEN Append(@, res.shell) ELSE @,
                !.argv = IF res.argv # <<>> THEN Append(@, res.argv) ELSE @,
                !.prov = IF res.raised THEN Append(@, <<"git_error", i>>)
                         ELSE IF res.prov # "none" THEN Append(@, <<res.prov, i>>) ELSE @,
                !.tried = @ \cup {i},
                !.raised = IF res.raised THEN @ \cup {i} ELSE @]

\* one turn of "for tool in response.tool_calls": json.loads, the tool, and
\* the except branch that records git_error
run_tool_call(acc, call, i) ==
    LET res == IF call.outcome = "bad_json"
               THEN [shell |-> <<>>, argv |-> <<>>, prov |-> "none", raised |-> TRUE]
               ELSE execute_git_tool_call(call)
    IN  [acc EXCEPT
           !.shell = IF res.shell # <<>> THEN Append(@, res.shell) ELSE @,
           !.argv = IF res.argv # <<>> THEN Append(@, res.argv) ELSE @,
           !.prov = IF res.raised THEN Append(@, <<"git_error", i>>)
                    ELSE IF res.prov # "none" THEN Append(@, <<res.prov, i>>) ELSE @,
           !.tried = @ \cup {i},
           !.raised = IF res.raised THEN @ \cup {i} ELSE @]

RECURSIVE tool_loop(_, _, _)
tool_loop(acc, calls, i) ==
    IF i > Len(calls) THEN acc
    ELSE tool_loop(run_tool_call(acc, calls[i], i), calls, i + 1)

NoGitRun == [done |-> FALSE, shell |-> <<>>, argv |-> <<>>, prov |-> <<>>,
             tried |-> {}, raised |-> {}, commit_step |-> FALSE,
             push_step |-> FALSE, pushed |-> FALSE, push_dirty |-> FALSE,
             pr_step |-> FALSE]

\* step 2: the commit worker; gen is "ok" or "raise" (generate_response)
commit_step(in, gen) ==
    IF ~(in.git_commit_ready /\ in.dirty) THEN NoGitRun
    ELSE IF gen = "raise"
    THEN [NoGitRun EXCEPT !.commit_step = TRUE, !.prov = <<<<"git_error", 0>>>>]
    ELSE tool_loop([NoGitRun EXCEPT !.commit_step = TRUE], in.calls, 1)

\* step 3: the push worker; changes is has_changes() at that point
push_step(in, acc, changes, push) ==
    IF ~(in.git_auto_push \/ in.git_create_pr) THEN acc
    ELSE IF ~in.git_branch_name THEN [acc EXCEPT !.push_step = TRUE, !.push_dirty = changes]
    ELSE LET res == execute_git_tool_call(ToolCall("git_push", <<>>, push))
         IN  [acc EXCEPT !.push_step = TRUE, !.push_dirty = changes, !.pushed = TRUE,
                         !.argv = Append(@, res.argv),
                         !.prov = IF res.raised THEN Append(@, <<"git_error", 0>>) ELSE @]

\* step 4: the PR worker
pr_step(in, acc) ==
    IF in.git_create_pr /\ in.git_branch_name THEN [acc EXCEPT !.pr_step = TRUE] ELSE acc

git_steps(in, gen, changes, push) ==
    [pr_step(in, push_step(in, commit_step(in, gen), changes, push)) EXCEPT !.done = TRUE]

GitInputs ==
    [git_commit_ready : BOOLEAN, git_auto_push : BOOLEAN, git_create_pr : BOOLEAN,
     git_branch_name : BOOLEAN, dirty : BOOLEAN,
     calls : {<<>>} \cup UNION {[1..n -> ToolCalls] : n \in 1..MaxCalls}]

NoGitInput == [git_commit_ready |-> FALSE, git_auto_push |-> FALSE,
               git_create_pr |-> FALSE, git_branch_name |-> FALSE, dirty |-> FALSE,
               calls |-> <<>>]

\* one run of the steps; the tree at the push step is as before unless a
\* tool call ran in between
GitWorkflow(gen, changes, push) ==
    /\ ~gw_out.done
    /\ gw_out' = git_steps(gw_in, gen, changes, push)
    /\ (gw_out'.tried = {} => changes = gw_in.dirty)
    /\ UNCHANGED <<gw_in, rtvars, svars, gvars, wvars, hvars, spvars, vtvars, clvars, fvars, cxvars, oldvars>>

GitQuiet ==
    /\ gw_in = NoGitInput
    /\ gw_out = NoGitRun

(* ---------------- SelfHealingMonitor.check_health ---------------- *)

PI_LOW == 50
TOOLS_CRITICAL == 3
ROLES_CRITICAL == 2

\* the roles check_health asks the performance index of
git_roles == {"feature_scout", "code_auditor", "issue_triage", "branch_manager"}

\* statistics with index 1.00, 0.28 and exactly 0.50
HealthStats == {NoTelemetry, [rate |-> 4, avg |-> 10], [rate |-> 5, avg |-> 5]}

ToolNames == 1..MaxTools

\* check_health: tool problems, role failures and the overall status
check_health(tools, stats) ==
    LET failed_roles == {r \in git_roles : get_performance_index(stats[r]) < PI_LOW}
    IN  [done |-> TRUE,
         status |-> IF Cardinality(tools) >= TOOLS_CRITICAL
                       \/ Cardinality(failed_roles) >= ROLES_CRITICAL THEN "CRITICAL"
                    ELSE IF tools # {} \/ failed_roles # {} THEN "DEGRADED"
                    ELSE "HEALTHY",
         problematic_tools |-> tools,
         failed_roles |-> failed_roles,
         evaluated |-> git_roles]

NoHealth == [done |-> FALSE, status |-> "HEALTHY", problematic_tools |-> {},
             failed_roles |-> {}, evaluated |-> {}]

NoHealthInput == [tools |-> {}, stats |-> [r \in Roles |-> NoTelemetry]]

CheckHealth ==
    /\ ~hout.done
    /\ hout' = check_health(hin.tools, hin.stats)
    /\ UNCHANGED <<hin, rtvars, svars, gvars, wvars, gwvars, spvars, vtvars, clvars, fvars, cxvars, oldvars>>

HealthQuiet ==
    /\ hin = NoHealthInput
    /\ hout = NoHealth

(* ---------------- DebateEngine.select_next_speaker ---------------- *)

\* agent identifiers in ascending order
SpeakerIds == <<"a", "b", "c">>
rank(id) == CHOOSE i \in DOMAIN SpeakerIds : SpeakerIds[i] = id

\* the agents left after the two constraints; turns[a] is the number of
\* critiques from a, max_turns is NULL for None
available(agents, turns, constraints) ==
    LET after_repeat == IF constraints.no_consecutive_repeats
                           /\ constraints.previous_speaker # "none"
                        THEN agents \ {constraints.previous_speaker}
                        ELSE agents
    IN  IF constraints.max_turns_per_agent # NULL
        THEN {a \in after_repeat : ~(turns[a] >= constraints.max_turns_per_agent)}
        ELSE after_repeat

\* list(available)[0]: the first element in the set's iteration order, which
\* for a set of strings is any of its elements
select_next_speaker(agents, turns, constraints) ==
    IF available(agents, turns, constraints) = {} THEN {"none"}
    ELSE available(agents, turns, constraints)

NoSpeakerInput ==
    [agents |-> {}, turns |-> [a \in Range(SpeakerIds) |-> 0],
     constraints |-> [no_consecutive_repeats |-> TRUE, previous_speaker |-> "none",
                      max_turns_per_agent |-> NULL]]

NoSpeaker == [done |-> FALSE, speaker |-> "none"]

SelectNextSpeaker ==
    /\ ~sp_out.done
    /\ \E pick \in select_next_speaker(sp_in.agents, sp_in.turns, sp_in.constraints) :
           sp_out' = [done |-> TRUE, speaker |-> pick]
    /\ UNCHANGED <<sp_in, rtvars, svars, gvars, wvars, gwvars, hvars, vtvars, clvars, fvars, cxvars, oldvars>>

SpeakerQuiet ==
    /\ sp_in = NoSpeakerInput
    /\ sp_out = NoSpeaker

(* ---------------- WeightedVotingConsensus.compute_decision ---------------- *)

initial_rating == 1500

Voters == {"v1", "v2"}
Decisions == {"approve", "reject"}

\* confidence in tenths
Confidences == {0, 5, 10}

\* update_elo_rating adds k_factor * (actual - expected) with no floor or
\* ceiling, so a rating is any number: below zero, the initial one, above it
Ratings == {0 - 750, initial_rating, 3000}

Vote(agent_id, decision, confidence) ==
    [agent_id |-> agent_id, decision |-> decision, confidence |-> confidence]

Votes == {Vote(a, d, c) : a \in Voters, d \in Decisions, c \in Confidences}

\* the weight of one vote where the Elo multiplier is the distance below the
\* initial rating
weight_inverted(vote, ratings, use_elo) ==
    IF use_elo THEN vote.confidence * (initial_rating - ratings[vote.agent_id])
    ELSE vote.confidence * initial_rating

\* the weight of one vote, times 10 * initial_rating:
\* confidence * (rating / initial_rating) with Elo, confidence without
weight(vote, ratings, use_elo) ==
    IF use_elo THEN vote.confidence * ratings[vote.agent_id]
    ELSE vote.confidence * initial_rating

RECURSIVE weighted_sum(_, _, _, _)
weighted_sum(votes, d, ratings, use_elo) ==
    IF votes = <<>> THEN 0
    ELSE (IF Head(votes).decision = d THEN weight(Head(votes), ratings, use_elo) ELSE 0)
         + weighted_sum(Tail(votes), d, ratings, use_elo)

\* the keys of weighted_votes in insertion order: decisions by first vote
first_vote(votes, d) == CHOOSE i \in DOMAIN votes :
    votes[i].decision = d /\ \A j \in 1..(i - 1) : votes[j].decision # d

\* compute_decision on a non-empty vote list
compute_decision(votes, ratings, use_elo) ==
    LET keys == {votes[i].decision : i \in DOMAIN votes}
        total(d) == weighted_sum(votes, d, ratings, use_elo)
        top == CHOOSE d \in keys :
                   /\ \A e \in keys : total(e) <= total(d)
                   /\ \A e \in keys : total(e) = total(d) =>
                          first_vote(votes, d) <= first_vote(votes, e)
        second == IF keys = {top} THEN 0
                  ELSE total(CHOOSE e \in keys \ {top} :
                                 \A f \in keys \ {top} : total(f) <= total(e))
    IN  [done |-> TRUE, decision |-> top, total_weight |-> total(top),
         winning_margin |-> total(top) - second]

NoVoteInput == [votes |-> <<>>, ratings |-> [a \in Voters |-> initial_rating],
                use_elo |-> TRUE]

NoConsensus == [done |-> FALSE, decision |-> "none", total_weight |-> 0,
                winning_margin |-> 0]

ComputeDecision ==
    /\ ~vt_out.done
    /\ vt_out' = compute_decision(vt_in.votes, vt_in.ratings, vt_in.use_elo)
    /\ UNCHANGED <<vt_in, rtvars, svars, gvars, wvars, gwvars, hvars, spvars, clvars, fvars, cxvars, oldvars>>

VoteQuiet ==
    /\ vt_in = NoVoteInput
    /\ vt_out = NoConsensus

(* ---------------- memory_worker._claim_task ---------------- *)

Sessions == {"s1", "s2"}
PlanLines == {"T1", "T2"}

\* a task line: its checkbox mark and the session named in "(claimed by ...)"
Line(mark, owner) == [mark |-> mark, owner |-> owner]

\* the loop over the lines that was read: the early returns, or the lines
\* to write back with the task's line claimed
claim_lines(content, session_id, t) ==
    IF content[t].mark = "x" THEN [write |-> FALSE, lines |-> content]
    ELSE IF content[t].mark = "/" /\ content[t].owner # session_id
    THEN [write |-> FALSE, lines |-> content]
    ELSE IF content[t].mark = " "
    THEN [write |-> TRUE, lines |-> [content EXCEPT ![t] = Line("/", session_id)]]
    ELSE [write |-> FALSE, lines |-> content]

NoClaim == [at |-> "idle", task |-> "T1", lines |-> [t \in PlanLines |-> Line(" ", "none")],
            result |-> "none"]

\* a call of claim_task, up to its return or its write: global_plan.read_text()
\* and the loop over its lines
ClaimRead(session_id, t) ==
    LET res == claim_lines(gplan, session_id, t)
    IN  /\ claimer[session_id].at # "read"
        /\ claimer' = [claimer EXCEPT ![session_id] =
               IF res.write
               THEN [at |-> "read", task |-> t, lines |-> gplan, result |-> "none"]
               ELSE [at |-> "done", task |-> t, lines |-> gplan, result |-> "refused"]]
        /\ UNCHANGED <<gplan, rtvars, svars, gvars, wvars, gwvars, hvars, spvars,
                       vtvars, fvars, cxvars, oldvars>>

\* global_plan.write_text(updated_lines) and the success message
ClaimWrite(session_id) ==
    LET me == claimer[session_id]
        res == claim_lines(me.lines, session_id, me.task)
    IN  /\ me.at = "read"
        /\ gplan' = IF res.write THEN res.lines ELSE gplan
        /\ claimer' = [claimer EXCEPT ![session_id] =
               [me EXCEPT !.at = "done",
                          !.result = IF res.write THEN "claimed" ELSE "refused"]]
        /\ UNCHANGED <<rtvars, svars, gvars, wvars, gwvars, hvars, spvars, vtvars,
                       fvars, cxvars, oldvars>>

ClaimQuiet ==
    /\ gplan = [t \in PlanLines |-> Line(" ", "none")]
    /\ claimer = [x \in Sessions |-> NoClaim]

(* ---------------- role failures and the performance index ---------------- *)

MaxStore == 4
MaxSeedEvents == 2

\* the roles whose dispatch is followed
FailRoles == {"code_auditor", "feature_scout"}

\* a row of the events table: type, data.tool_name (prefix and name),
\* data.properties.role, data.success, data.duration_ms (in seconds)
TelemetryEvent(type, prefix, name, role, success, duration) ==
    [ type |-> type, tool_name |-> [prefix |-> prefix, name |-> name],
      role |-> role, success |-> success, duration |-> duration ]

\* what the store can hold of a role before the dispatcher runs: provenance
\* events signed with the role, tool_use events of "git_role_<role>"
SeedEvents ==
    { TelemetryEvent("provenance", "", "provenance_log", r, ok, 0) :
          r \in FailRoles, ok \in BOOLEAN }
    \cup { TelemetryEvent("tool_use", "git_role_", r, "none", TRUE, max_duration) :
               r \in FailRoles }

RECURSIVE sum_duration(_)
sum_duration(rows) ==
    IF rows = <<>> THEN 0 ELSE Head(rows).duration + sum_duration(Tail(rows))

\* TelemetryAnalyticsService.get_role_success_rate, in tenths: the rows of
\* type provenance with properties.role = role
get_role_success_rate(db, role) ==
    LET Selected(e) == e.type = "provenance" /\ e.role = role
        Succeeded(e) == Selected(e) /\ e.success
        total == Len(SelectSeq(db, Selected))
    IN  IF total > 0 THEN (Len(SelectSeq(db, Succeeded)) * 10) \div total ELSE 10

\* TelemetryAnalyticsService.get_avg_duration("git_role_<role>"): the rows of
\* type tool_use with that tool name
get_avg_duration(db, role) ==
    LET Selected(e) == e.type = "tool_use" /\ e.tool_name = [prefix |-> "git_role_", name |-> role]
        rows == SelectSeq(db, Selected)
    IN  IF rows # <<>> THEN sum_duration(rows) \div Len(rows) ELSE 0

\* the statistics get_performance_index reads for a role
role_stats(db, role) ==
    [rate |-> get_role_success_rate(db, role), avg |-> get_avg_duration(db, role)]

\* SelfHealingMonitor.record_failure: the count goes up, an event of type
\* error named after the role is added to the buffer
record_failure(db, breakers, target) ==
    [ db |-> Append(db, TelemetryEvent("error", "", target, "none", FALSE, 0)),
      breakers |-> [breakers EXCEPT ![target] = @ + 1] ]

\* SelfHealingMonitor.record_success
record_success(db, breakers, target) ==
    [ db |-> db,
      breakers |-> [breakers EXCEPT ![target] = IF @ > 0 THEN @ - 1 ELSE 0] ]

\* GitRoleDispatcher.dispatch, the loop body for one triggered role
dispatch_role(db, breakers, role, raises) ==
    IF should_skip_role(role_stats(db, role))
    THEN [db |-> db, breakers |-> breakers, status |-> "SKIPPED"]
    ELSE IF raises
    THEN LET rec == record_failure(db, breakers, role)
         IN  [db |-> rec.db, breakers |-> rec.breakers, status |-> "FAILED"]
    ELSE LET rec == record_success(db, breakers, role)
         IN  [db |-> rec.db, breakers |-> rec.breakers, status |-> "COMPLETED"]

NoRoleDispatch ==
    [called |-> FALSE, role |-> "none", status |-> "none", pi_before |-> 0, pi_after |-> 0]

\* one dispatch of a task that triggers the role; the buffered events are
\* flushed to the store before the next dispatch
RoleDispatch(role, raises) ==
    /\ Len(tstore) < MaxStore
    /\ LET res == dispatch_role(tstore, circuit_breakers, role, raises)
       IN  /\ tstore' = res.db
           /\ circuit_breakers' = res.breakers
           /\ fd_last' = [ called |-> TRUE, role |-> role, status |-> res.status,
                           pi_before |-> get_performance_index(role_stats(tstore, role)),
                           pi_after |-> get_performance_index(role_stats(res.db, role)) ]
    /\ UNCHANGED <<rtvars, svars, gvars, wvars, gwvars, hvars, spvars, vtvars, clvars, cxvars, oldvars>>

FailQuiet ==
    /\ tstore = <<>>
    /\ circuit_breakers = [r \in FailRoles |-> 0]
    /\ fd_last = NoRoleDispatch

(* ---------------- the worker context of a tick ---------------- *)

MAX_MEMORY_ITEMS == 10
MaxBank == 11

ContextTools == {"search", "deploy"}

\* an item of the dict: its key and its value (kind "data" for an entry the
\* project stored, the alert banner or the tool list for an injected key)
BankItem(key, kind, tools) == [key |-> key, kind |-> kind, tools |-> tools]

EntryKeys == [i \in 1..MaxBank |-> <<"entry", i>>]

\* a memory_bank of n stored entries
StoredBank(n) == [i \in 1..n |-> BankItem(EntryKeys[i], "data", {})]

\* d[key] = value on a dict in insertion order
dict_set(d, item) ==
    IF \E i \in 1..Len(d) : d[i].key = item.key
    THEN [i \in 1..Len(d) |-> IF d[i].key = item.key THEN item ELSE d[i]]
    ELSE Append(d, item)

\* process_task, "[Phase 3] Sliding window": the last MAX_MEMORY_ITEMS items
\* as a new dict, or the memory_bank itself when it holds no more than that
\* (aliased tells the two apart)
context_window(bank) ==
    IF Len(bank) > MAX_MEMORY_ITEMS
    THEN [slice |-> SubSeq(bank, Len(bank) - MAX_MEMORY_ITEMS + 1, Len(bank)),
          aliased |-> FALSE]
    ELSE [slice |-> bank, aliased |-> TRUE]

\* process_task, "[V3.8: Adaptive Context]": status maps each tool to "ok"
\* (not a problematic tool), "WARNING" or "TRIPPED"
inject_alerts(slice, status) ==
    LET problems == {tool \in ContextTools : status[tool] # "ok"}
        critical_tools == {tool \in problems : status[tool] = "TRIPPED"}
        alerted == dict_set(slice,
                       BankItem(<<"SYSTEM_ALERTS", 0>>,
                                IF critical_tools = {} THEN "warning" ELSE "tripped",
                                problems))
    IN  IF problems = {} THEN slice
        ELSE IF critical_tools = {} THEN alerted
        ELSE dict_set(alerted, BankItem(<<"BLOCKED_TOOLS", 0>>, "blocked", critical_tools))

\* the context handed to the prompt and the memory_bank the tick is left
\* with: a write to an aliased slice is a write to the memory_bank
build_context(bank, status) ==
    LET w == context_window(bank)
        context == inject_alerts(w.slice, status)
    IN  [context |-> context, bank |-> IF w.aliased THEN context ELSE bank]

NoContext == [called |-> FALSE, loaded |-> <<>>, context |-> <<>>]

\* a tick of the autonomous worker flow: load_state, the context, the
\* worker, save_state
ContextTick(status) ==
    /\ LET loaded == bank_disk
           res == build_context(loaded, status)
       IN  /\ memory_bank' = res.bank
           /\ bank_disk' = res.bank
           /\ cx_last' = [called |-> TRUE, loaded |-> loaded, context |-> res.context]
    /\ UNCHANGED <<rtvars, svars, gvars, wvars, gwvars, hvars, spvars, vtvars, clvars, fvars, oldvars>>

ContextQuiet ==
    /\ memory_bank = <<>>
    /\ bank_disk = <<>>
    /\ cx_last = NoContext

XQuiet == RoundTripQuiet /\ StoreQuiet /\ ProvQuiet /\ ModelQuiet /\ GitQuiet /\ HealthQuiet /\ SpeakerQuiet /\ VoteQuiet /\ ClaimQuiet /\ FailQuiet /\ ContextQuiet

OldQuiet == RolesQuiet /\ DebateQuiet /\ PrunerQuiet /\ MergeQuiet

AlgoQuiet == OldQuiet /\ XQuiet

Quiet ==
    /\ plan = EmptyMap
    /\ last = Idle
    /\ fails = [t \in Tasks |-> 0]
    /\ reverted = {}
    /\ rejected = {}
    /\ phase = "top"
    /\ nedits = 0
    /\ pc = [at |-> "idle", task |-> "none"]
    /\ cli = [at |-> "idle", state |-> ProjectProfile, id |-> "none"]
    /\ persisted = DOMAIN disk.tasks
    /\ session = [exists |-> FALSE, locked_by |-> "NULL", lock_expires_at |-> NULL]
    /\ clock = 0
    /\ lk_last = NoCall

\* one PENDING task registered and saved.  A log that is not empty stands for
\* that many earlier ticks of a context_needed task, each of which added the
\* retrieval note and nothing else.
KernelInit ==
    /\ cfg \in Configs
    /\ \E seed \in SeedTasks, n \in FbSeeds :
          /\ n > 0 => seed = [Task("PENDING") EXCEPT !.context_needed = TRUE]
          /\ mem = add_task(ProjectProfile, "t1", [seed EXCEPT !.feedback_log = n])
    /\ disk = mem
    /\ dirty \in BOOLEAN
    /\ ticks_left = MaxTicks
    /\ Quiet
    /\ AlgoQuiet

\* one plain PENDING task, strict-git on, git available, autonomous mode
SmallInit ==
    /\ cfg = [strict |-> TRUE, git |-> TRUE, agentic |-> FALSE]
    /\ mem = add_task(ProjectProfile, "t1", Task("PENDING"))
    /\ disk = mem
    /\ dirty \in BOOLEAN
    /\ ticks_left = MaxShortRun
    /\ Quiet
    /\ AlgoQuiet

\* as SmallInit, the task plain or flagged tests_failing
PlanInit ==
    /\ cfg = [strict |-> TRUE, git |-> TRUE, agentic |-> FALSE]
    /\ \E seed \in {Task("PENDING"), [Task("PENDING") EXCEPT !.tests_failing = TRUE]} :
          mem = add_task(ProjectProfile, "t1", seed)
    /\ disk = mem
    /\ dirty \in BOOLEAN
    /\ ticks_left = MaxShortRun
    /\ Quiet
    /\ AlgoQuiet

\* as KernelInit, the one PENDING task plain or flagged context_needed
LoopInit ==
    /\ cfg \in Configs
    /\ \E seed \in {Task("PENDING"), [Task("PENDING") EXCEPT !.context_needed = TRUE]},
          n \in FbSeeds :
          /\ n > 0 => seed.context_needed
          /\ mem = add_task(ProjectProfile, "t1", [seed EXCEPT !.feedback_log = n])
    /\ disk = mem
    /\ dirty \in BOOLEAN
    /\ ticks_left = MaxTicks
    /\ Quiet
    /\ AlgoQuiet

\* an orchestrator with no task to run
Parked ==
    /\ cfg = [strict |-> TRUE, git |-> TRUE, agentic |-> FALSE]
    /\ mem = ProjectProfile
    /\ disk = mem
    /\ dirty = FALSE
    /\ ticks_left = 0
    /\ Quiet

\* the telemetry store is an input of the dispatcher: statistics for up to
\* MaxTracked roles, none for the others
RolesInit ==
    /\ Parked
    /\ telemetry \in [Roles -> RoleStats]
    /\ Cardinality({r \in Roles : telemetry[r] # NoTelemetry}) <= MaxTracked
    /\ rd = NoDispatch
    /\ DebateQuiet
    /\ PrunerQuiet
    /\ MergeQuiet
    /\ XQuiet

DebateInit == Parked /\ AlgoQuiet

\* any log, similarity of its entries to the query, provider and keep counts
PrunerInit ==
    /\ Parked /\ RolesQuiet /\ DebateQuiet /\ MergeQuiet /\ XQuiet
    /\ pin \in [log : Logs, similarity : [Signatures -> Scores], provider : Providers,
                keep_tail : 0..MaxKeep, keep_relevant : 0..MaxKeep]
    /\ pout = NoPrune

vars == <<kvars, pvars, cvars, lvars, avars>>

Init == KernelInit

\* the kernel alone: ticks and the workspace
Next ==
    \/ \E t \in Tasks : Tick(t)
    \/ EditFiles
    \/ CommitFiles

Spec == Init /\ [][Next]_vars

\* the orchestrate loop with the plan file and a person editing it
NextPlan ==
    \/ \E t \in Tasks : Tick(t)
    \/ SyncInbound
    \/ LoadState
    \/ \E d \in Tasks, mark \in PlanStatus : HumanEdit(d, mark)
    \/ EditFiles
    \/ CommitFiles

SpecPlan == SmallInit /\ [][NextPlan]_vars

SpecPlanFlagged == PlanInit /\ [][NextPlan]_vars

\* the orchestrator process and `orchestrator task` on one profile file
NextConc ==
    \/ \E t \in Tasks : TickLoad(t)
    \/ TickSave
    \/ \E id \in Tasks : CliConstruct(id)
    \/ CliRegister
    \/ CliTickLoad
    \/ CliTickSave

SpecConc == SmallInit /\ [][NextConc]_vars

\* two agents on one session row
NextLock ==
    \/ \E a \in Agents : SaveSession(a)
    \/ \E a \in Agents : LoadSession(a)
    \/ \E a \in Agents : ReleaseLock(a)
    \/ CleanupStaleLocks
    \/ Minute

NextRoles ==
    \E triggered \in SUBSET Roles :
        \E raising \in {{}} \cup {{r} : r \in triggered} :
            Dispatch(triggered, raising)

SpecRoles == RolesInit /\ [][NextRoles]_vars

NextDebate ==
    \/ \E agents \in AgentLists : \E topology \in Topologies : StartDebate(agents, topology)
    \/ \E drafts \in DraftMaps : BlindDraft(drafts)
    \/ \E fn \in {"ok", "raises"} : SparseCritique(fn)
    \/ \E revisions \in DraftMaps : Revision(revisions)

SpecDebate == DebateInit /\ [][NextDebate]_vars

\* any blackboard task and any plan entry carrying its description
MergeInit ==
    /\ Parked /\ RolesQuiet /\ DebateQuiet /\ PrunerQuiet /\ XQuiet
    /\ board \in BoardTasks
    /\ entry \in PlanEntries
    /\ sync_last = NoSync

NextMerge == SyncEntry

SpecMerge == MergeInit /\ [][NextMerge]_vars

\* any one task, or any two tasks with different descriptions
RoundTripInit ==
    /\ Parked /\ OldQuiet /\ StoreQuiet /\ ProvQuiet /\ ModelQuiet /\ GitQuiet /\ HealthQuiet /\ SpeakerQuiet /\ VoteQuiet /\ ClaimQuiet /\ FailQuiet /\ ContextQuiet
    /\ rt_in \in {<<a>> : a \in PlanTasks("A")}
                 \cup {<<a, b>> : a \in PlanTasks("A"), b \in PlanTasks("B")}
    /\ rt_out = NoRoundTrip

NextRoundTrip == RoundTrip

SpecRoundTrip == RoundTripInit /\ [][NextRoundTrip]_vars

\* a new Orchestrator: fresh state, nothing stored, SQL configured or not
StoreInit ==
    /\ Parked /\ OldQuiet /\ RoundTripQuiet /\ ProvQuiet /\ ModelQuiet /\ GitQuiet /\ HealthQuiet /\ SpeakerQuiet /\ VoteQuiet /\ ClaimQuiet /\ FailQuiet /\ ContextQuiet
    /\ smem = Fresh
    /\ srow = NoRow
    /\ sfile = NoFile
    /\ sql_enabled \in BOOLEAN
    /\ io_last = NoIO

NextStore ==
    \/ \E sql \in {"ok", "raises"} : \E lock \in {"ok", "timeout"} : StoreLoad(sql, lock)
    \/ \E sql \in {"ok", "raises"} : \E write \in {"ok", "timeout", "refused", "torn"} :
           StoreSave(sql, write)
    \/ \E t \in Tasks : StoreAddTask(t)
    \/ StoreFileRemoved

SpecStore == StoreInit /\ [][NextStore]_vars

ProvInit ==
    /\ Parked /\ OldQuiet /\ RoundTripQuiet /\ StoreQuiet /\ ModelQuiet /\ GitQuiet /\ HealthQuiet /\ SpeakerQuiet /\ VoteQuiet /\ ClaimQuiet /\ FailQuiet /\ ContextQuiet
    /\ pbuf = <<>>
    /\ prov_last = NoProvenance

NextProv == \E role \in ProvenanceRoles : \E accepts \in BOOLEAN : RecordProvenance(role, accepts)

SpecProv == ProvInit /\ [][NextProv]_vars

\* a new Orchestrator after load_state: no profile file and the default
\* model, or the file an earlier run saved and its model
ModelInit ==
    /\ Parked /\ OldQuiet /\ RoundTripQuiet /\ StoreQuiet /\ ProvQuiet /\ GitQuiet /\ HealthQuiet /\ SpeakerQuiet /\ VoteQuiet /\ ClaimQuiet /\ FailQuiet /\ ContextQuiet
    /\ wfile \in {NoProfileFile}
                 \cup {[exists |-> TRUE, models |-> m] : m \in [ModelKeys -> Aliases]}
    /\ wmem = wfile.models
    /\ w_last = NoFileOp

NextModel ==
    \/ ModelSave
    \/ ModelLoad
    \/ \E key \in BOOLEAN : \E working \in SUBSET Range(GEMINI_CASCADE) :
           \E lock \in {"ok", "timeout"} : \E k \in ModelKeys : LLMCall(k, key, working, lock)

SpecModel == ModelInit /\ [][NextModel]_vars

GitInit ==
    /\ Parked /\ OldQuiet /\ RoundTripQuiet /\ StoreQuiet /\ ProvQuiet /\ ModelQuiet /\ HealthQuiet /\ SpeakerQuiet /\ VoteQuiet /\ ClaimQuiet /\ FailQuiet /\ ContextQuiet
    /\ gw_in \in GitInputs
    /\ gw_out = NoGitRun

NextGit ==
    \E gen \in {"ok", "raise"} : \E changes \in BOOLEAN :
        \E push \in {"ok", "exit_nonzero"} : GitWorkflow(gen, changes, push)

SpecGit == GitInit /\ [][NextGit]_vars

HealthInit ==
    /\ Parked /\ OldQuiet /\ RoundTripQuiet /\ StoreQuiet /\ ProvQuiet /\ ModelQuiet /\ GitQuiet /\ SpeakerQuiet /\ VoteQuiet /\ ClaimQuiet /\ FailQuiet /\ ContextQuiet
    /\ hin \in [tools : SUBSET ToolNames, stats : [Roles -> HealthStats]]
    /\ hout = NoHealth

NextHealth == CheckHealth

SpecHealth == HealthInit /\ [][NextHealth]_vars

SpeakerInit ==
    /\ Parked /\ OldQuiet /\ RoundTripQuiet /\ StoreQuiet /\ ProvQuiet /\ ModelQuiet /\ GitQuiet /\ HealthQuiet /\ VoteQuiet /\ ClaimQuiet /\ FailQuiet /\ ContextQuiet
    /\ sp_in \in [agents : SUBSET Range(SpeakerIds),
                  turns : [Range(SpeakerIds) -> 0..MaxTurns],
                  constraints : [no_consecutive_repeats : BOOLEAN,
                                 previous_speaker : {"none"} \cup Range(SpeakerIds),
                                 max_turns_per_agent : {NULL} \cup 1..MaxTurns]]
    /\ \A a \in Range(SpeakerIds) \ sp_in.agents : sp_in.turns[a] = 0
    /\ sp_out = NoSpeaker

NextSpeaker == SelectNextSpeaker

SpecSpeaker == SpeakerInit /\ [][NextSpeaker]_vars

\* vote lists with at least 2 votes
VoteInit ==
    /\ Parked /\ OldQuiet /\ RoundTripQuiet /\ StoreQuiet /\ ProvQuiet /\ ModelQuiet /\ GitQuiet /\ HealthQuiet /\ SpeakerQuiet /\ ClaimQuiet /\ FailQuiet /\ ContextQuiet
    /\ vt_in \in [votes : UNION {[1..n -> Votes] : n \in 2..MaxVotes},
                  ratings : [Voters -> Ratings], use_elo : BOOLEAN]
    /\ vt_out = NoConsensus

NextVote == ComputeDecision

SpecVote == VoteInit /\ [][NextVote]_vars

\* a plan whose tasks are open or completed, nobody claiming yet
ClaimInit ==
    /\ Parked /\ OldQuiet /\ RoundTripQuiet /\ StoreQuiet /\ ProvQuiet /\ ModelQuiet /\ GitQuiet /\ HealthQuiet /\ SpeakerQuiet /\ VoteQuiet /\ FailQuiet /\ ContextQuiet
    /\ gplan \in [PlanLines -> {Line(" ", "none"), Line("x", "none")}]
    /\ claimer = [x \in Sessions |-> NoClaim]

NextClaim ==
    \/ \E x \in Sessions : \E t \in PlanLines : ClaimRead(x, t)
    \/ \E x \in Sessions : ClaimWrite(x)

SpecClaim == ClaimInit /\ [][NextClaim]_vars

\* the orchestrate loop left to run for ever on the pending tasks
NextLoop ==
    \/ \E t \in Tasks : OrchestrateTick(t)
    \/ SyncInbound
    \/ EditFiles
    \/ CommitFiles

\* orchestrate, "if not pending: sleep, continue": the loop at its top goes
\* on to process_task exactly when the profile holds a PENDING task.  In
\* NextLoop the steps that take phase from "top" are the OrchestrateTick
\* steps, so this is the tick seen through phase alone.
OrchestratePending ==
    /\ phase = "top"
    /\ \E t \in DOMAIN disk.tasks : disk.tasks[t].status = "PENDING"
    /\ phase' \in {"ticked", "stopped"}

\* `while True` never stops of itself: a pending task is processed, and the
\* inbound sync after the ticks is reached
SpecLoop ==
    /\ LoopInit
    /\ [][NextLoop]_vars
    /\ WF_phase(OrchestratePending)
    /\ WF_vars(SyncInbound)

\* any store of up to MaxSeedEvents events, no failure counted yet
FailInit ==
    /\ Parked /\ OldQuiet /\ RoundTripQuiet /\ StoreQuiet /\ ProvQuiet /\ ModelQuiet /\ GitQuiet /\ HealthQuiet /\ SpeakerQuiet /\ VoteQuiet /\ ClaimQuiet /\ ContextQuiet
    /\ tstore \in UNION {[1..n -> SeedEvents] : n \in 0..MaxSeedEvents}
    /\ circuit_breakers = [r \in FailRoles |-> 0]
    /\ fd_last = NoRoleDispatch

NextFail == \E role \in FailRoles, raises \in BOOLEAN : RoleDispatch(role, raises)

SpecFail == FailInit /\ [][NextFail]_vars

NextSyncTrip == OutboundInbound

SpecSyncTrip == RoundTripInit /\ [][NextSyncTrip]_vars

\* a saved memory_bank of up to MaxBank stored entries
ContextInit ==
    /\ Parked /\ OldQuiet /\ RoundTripQuiet /\ StoreQuiet /\ ProvQuiet /\ ModelQuiet /\ GitQuiet /\ HealthQuiet /\ SpeakerQuiet /\ VoteQuiet /\ ClaimQuiet /\ FailQuiet
    /\ memory_bank \in {StoredBank(n) : n \in 0..MaxBank}
    /\ bank_disk = memory_bank
    /\ cx_last = NoContext

NextContext == \E status \in [ContextTools -> {"ok", "WARNING", "TRIPPED"}] : ContextTick(status)

SpecContext == ContextInit /\ [][NextContext]_vars

NextPrune == PruneCall

SpecPrune == PrunerInit /\ [][NextPrune]_vars

SpecLock == SmallInit /\ [][NextLock]_vars

(* ---------------- properties of the kernel ---------------- *)

Ticked == last.op = "tick"
Now(t) == disk.tasks[t]
Logged(action, ref) == <<action, ref>> \in disk.provenance_log

\* C1 (as stated): whenever process_task runs on a task, of any status, whose
\* feedback log has more than 20 entries, the task is FAILED after the tick.
C1_AnyStatus ==
    (Ticked /\ last.pre_over) => Now(last.task).status = "FAILED"

\* C1: whenever process_task runs on a task that is not COMPLETED and whose
\* feedback log has more than 20 entries, the task is FAILED after the tick;
\* a COMPLETED task is left as it is.
C1_LoopGuard ==
    (Ticked /\ last.pre_over) =>
        IF last.pre[last.task] = "COMPLETED"
        THEN Now(last.task).status = "COMPLETED"
        ELSE Now(last.task).status = "FAILED" /\ last.path = "loop"

C1_Witness ==
    /\ Ticked /\ last.pre_over
    /\ last.pre[last.task] = "PENDING"
    /\ Now(last.task).status = "FAILED"

\* C4 (as stated): a tick whose worker answers SUCCESS while the tree is
\* modified, with strict-git on and git available, ends with the task PENDING,
\* git_commit_ready set and no task_completed provenance entry for the task.
C4_StrictReject ==
    (Ticked /\ last.success /\ last.pre_dirty /\ cfg.strict /\ cfg.git) =>
        /\ Now(last.task).status = "PENDING"
        /\ Now(last.task).git_commit_ready
        /\ ~Logged("task_completed", last.task)

\* C5 (as stated): the tick that follows a strict-git rejection of the same
\* task and ends with a clean tree leaves the task COMPLETED, with a git_commit
\* and a task_completed entry in the provenance log.
C5_CompletesAfterCommit ==
    (Ticked /\ last.after_reject /\ ~last.pre_over /\ ~dirty
        /\ last.path # "raised") =>
        /\ Now(last.task).status = "COMPLETED"
        /\ Logged("git_commit", "git-writer")
        /\ Logged("task_completed", last.task)

\* C6 (as stated): a task that strict-git reverted to PENDING, its log then
\* still within the loop limit, is never FAILED afterwards.
C6_RevertNeverFails ==
    \A t \in DOMAIN disk.tasks :
        <<t, TRUE>> \in reverted => Now(t).status # "FAILED"

\* C9 (as stated): a task whose worker call has failed on more than max_retries
\* consecutive ticks (the first try and max_retries retries) is FAILED.
C9_RetryLimit ==
    \A t \in DOMAIN disk.tasks :
        fails[t] > max_retries => Now(t).status = "FAILED"

HandlerOrder ==
    << "context_needed", "requires_consensus", "requires_debate",
       "verification_required", "tests_failing", "git_workflow" >>

InFlagged(h) == h \in last.flagged

Dispatched == Ticked /\ last.path \in {"handled", "worker", "agentic", "raised"}

\* C10 (as stated): within a tick no handler runs after the first handler
\* that succeeded.
C10_FirstSuccessEnds ==
    Dispatched =>
        \A i \in 1 .. Len(last.ran) : last.ran[i] \in last.ok => i = Len(last.ran)

\* C10: within a tick every flagged handler runs, in the fixed order
\* context_needed, requires_consensus, requires_debate, verification_required,
\* tests_failing, git workflow, whatever the earlier handlers returned; the
\* worker flow runs in that tick iff none of them succeeded.
C10_Dispatch ==
    Dispatched =>
        /\ last.ran = SelectSeq(HandlerOrder, InFlagged)
        /\ (last.ok # {}) <=> (last.path = "handled")

C10_Witness ==
    /\ Dispatched /\ last.path = "handled"
    /\ Len(last.ran) >= 2
    /\ last.ran[1] \in last.ok

(* ---------------- properties of the plan bridge ---------------- *)

Forward(before, after) ==
    /\ before \in {"COMPLETED", "FAILED"} => after = before
    /\ before = "IN_PROGRESS" => after # "PENDING"

C7_ExclusiveLock ==
    (lk_last.op \in {"load", "save"} /\ lk_last.pre_live
        /\ lk_last.pre_locked_by # lk_last.agent) =>
        session.locked_by = lk_last.pre_locked_by

(* ---------------- properties of the shared profile file ---------------- *)

\* C8 (as stated): every task id that was ever written to the profile file is
\* still in the profile file.
C8_NeverRemoved == persisted \subseteq DOMAIN disk.tasks

(* ---------------- properties of the end of a tick ---------------- *)

\* C11 (as stated): after every tick that changed a task through the loop
\* guard, the algorithm dispatch or the worker flow, the line the plan file
\* holds for that task is the one the outbound sync writes for its current
\* state.
C11_PlanReconciled ==
    (Ticked /\ last.path \in SavingPaths /\ last.task \in DOMAIN plan) =>
        plan[last.task] = render_task(Now(last.task))

\* C12 (as stated): a tick whose worker response carries a structured handoff
\* leaves exactly one more task in the persisted profile than there was, and
\* the new task is PENDING.
C12_HandoffAddsTask ==
    (Ticked /\ last.path = "raised") =>
        \E id \in DOMAIN disk.tasks :
            /\ id \notin DOMAIN last.pre
            /\ DOMAIN disk.tasks = DOMAIN last.pre \cup {id}
            /\ Now(id).status = "PENDING"

\* C13 (as stated): in every persisted profile a task with tests_failing set
\* and status COMPLETED has a task_completed entry in the provenance log.
C13_CompletedHasProvenance ==
    \A t \in DOMAIN disk.tasks :
        (Now(t).tests_failing /\ Now(t).status = "COMPLETED") =>
            Logged("task_completed", t)

(* ---------------- properties of the role dispatcher ---------------- *)

\* C14: a role whose performance index is below 0.3 when dispatch is called
\* is not executed during that dispatch.
C14_TrippedNotExecuted ==
    rd.called =>
        \A i \in 1..Len(rd.executed) :
            get_performance_index(telemetry[rd.executed[i]]) >= PI_TRIP

\* C14 witness: a dispatch for a task that triggers a role whose index is
\* below 0.3 (0.28) and a role whose index is exactly 0.3; the second ran.
C14_Witness ==
    /\ rd.called
    /\ \E r \in rd.triggered : get_performance_index(telemetry[r]) = 28
    /\ \E i \in 1..Len(rd.executed) :
           get_performance_index(telemetry[rd.executed[i]]) = PI_TRIP

\* C15 (as stated): every report dispatch returns belongs to a role whose
\* trigger_check held for the task.
C15_ReportsOnlyTriggered ==
    rd.called =>
        \A i \in 1..Len(rd.reports) : rd.reports[i].role \in rd.triggered

(* ---------------- properties of the debate engine ---------------- *)

PhaseOf(op) ==
    CASE op = "blind_draft_phase" -> "BLIND_DRAFT"
      [] op = "sparse_critique_phase" -> "CRITIQUE"
      [] op = "revision_phase" -> "REVISION"
      [] OTHER -> "any"

PhaseOps == {"blind_draft_phase", "sparse_critique_phase", "revision_phase"}

\* C16: a phase operation called on a debate that is in another phase than
\* its own (CONVERGED included) raises and leaves the debate as it was.
C16_OnlyInOwnPhase ==
    (db_last.op \in PhaseOps /\ db_last.existed /\ db_last.phase_before # PhaseOf(db_last.op))
        => (db_last.raised /\ ~db_last.changed)

\* C16 witness: a blind draft submitted to a converged debate was refused.
C16_Witness ==
    /\ db_last.op = "blind_draft_phase"
    /\ db_last.phase_before = "CONVERGED"
    /\ db_last.raised
    /\ debate.phase = "CONVERGED"

\* C17 (as stated): an accepted revisionPhase leaves the debate CONVERGED
\* exactly when at least n-1 agents' drafts equal their drafts of the prior
\* round or the round counter has reached max_rounds, and in CRITIQUE otherwise.
C17_ConvergedIffUnchanged ==
    (db_last.op = "revision_phase" /\ ~db_last.raised) =>
        /\ debate.phase \in {"CONVERGED", "CRITIQUE"}
        /\ debate.phase = "CONVERGED" <=>
               (db_last.same >= Len(debate.agents) - 1 \/ debate.current_round >= max_rounds)

(* ---------------- properties of the context pruner ---------------- *)

Pruned == Entries(pin.log, pout.idx)

LastN(seq, k) == SubSeq(seq, (IF Len(seq) > k THEN Len(seq) - k ELSE 0) + 1, Len(seq))

Increasing(idx) == \A i, j \in 1..Len(idx) : i < j => idx[i] < idx[j]

\* C18: the last keep_tail entries of the pruned log are the last keep_tail
\* entries of the input log, in the same order, whatever the provider does.
C18_TailKept ==
    pout.called => LastN(Pruned, pin.keep_tail) = LastN(pin.log, pin.keep_tail)

\* C18 witness: an embedding-ranked prune that dropped entries and kept a
\* candidate that is not adjacent to the tail.
C18_Witness ==
    /\ pout.called
    /\ pin.provider = "embeds"
    /\ pin.keep_tail > 0
    /\ Len(pout.idx) < Len(pin.log)
    /\ \E i \in 1..(Len(pout.idx) - 1) : pout.idx[i + 1] > pout.idx[i] + 1

C20_PlanAuthoritative ==
    (sync_last.done /\ ~sync_last.failed) =>
        /\ board.input_files = sync_last.parsed.input_files
        /\ board.git_commit_ready = sync_last.parsed.git_commit_ready
        /\ board.git_create_pr = sync_last.parsed.git_create_pr
        /\ board.tests_failing = sync_last.parsed.tests_failing
        /\ (sync_last.parsed.status = "PENDING" /\ sync_last.before.status # "PENDING")
               => board.status = sync_last.before.status

(* ---------------- properties of the Markdown round trip ---------------- *)

\* the tasks parsed are the tasks generated from, in some order
SameTasks(a, b) ==
    /\ Len(a) = Len(b)
    /\ \E f \in [1..Len(a) -> 1..Len(a)] :
           /\ \A i, j \in 1..Len(a) : f[i] = f[j] => i = j
           /\ \A i \in 1..Len(a) : a[i] = b[f[i]]

\* tasks the grammar can express: a checkbox status, a role of word
\* characters, file names without commas
InGrammar(t) ==
    /\ t.status # "FAILED"
    /\ t.assigned_worker # "none"
    /\ rest_of(t.assigned_worker) = <<>>
    /\ \A i \in 1..Len(t.input_files) : Len(t.input_files[i]) = 1

C22_FileFailureRaises ==
    (io_last.op = "save" /\ io_last.file = "failed") => io_last.raised

\* C23 (as stated): load takes the SQL profile when SQL is configured and
\* returns one, the file's profile when SQL fails or has none, and leaves a
\* fresh default profile in memory when neither backend returned one.
C23_LoadFallsBackToFresh ==
    io_last.op = "load" =>
        /\ io_last.sql = "profile" => smem = srow.data
        /\ (io_last.sql # "profile" /\ io_last.file = "profile") => smem = sfile.data
        /\ (io_last.sql # "profile" /\ io_last.file # "profile") => smem = Fresh

(* ---------------- properties of cleanup_stale_locks ---------------- *)

\* C24 (as stated): after cleanup_stale_locks no lock is left whose
\* lock_expires_at is earlier than now, and a lock that had not expired
\* before the call is still held by the same agent.
C24_ClearsExactlyExpired ==
    lk_last.op = "cleanup" =>
        /\ ~(session.exists /\ session.lock_expires_at # NULL
                /\ session.lock_expires_at < clock)
        /\ lk_last.pre_live =>
              (session.locked_by = lk_last.pre_locked_by
                  /\ session.lock_expires_at # NULL)

(* ---------------- properties of record_provenance ---------------- *)

\* C25 (as stated): a record_provenance call, for any role of the provenance
\* role set and whether or not the store accepted the write, did not raise.
C25_ProvenanceNeverRaises ==
    (prov_last.called /\ prov_last.role \in ProvenanceRoles) => ~prov_last.raised

(* ---------------- properties of the profile file's writers ---------------- *)

\* C26 (as stated): whenever the content of the persisted profile was
\* written, the writer was the kernel's save_state; a call of the LLM client
\* leaves the file as it was.
C26_OnlyKernelWrites ==
    w_last.wrote => w_last.op = "save"

(* ---------------- properties of the git workflow steps ---------------- *)

\* C27 (as stated): every command line the commit worker handed to a shell
\* starts with "git ", and the shell started no program other than git for it.
C27_OnlyGitRuns ==
    \A i \in DOMAIN gw_out.shell :
        /\ starts_with_git(gw_out.shell[i])
        /\ programs(gw_out.shell[i]) \subseteq {"git"}

\* C28 (as stated): git push ran only when git_auto_push or git_create_pr
\* was set, a branch was set and the workspace had no uncommitted changes.
C28_PushOnlyWhenClean ==
    gw_out.pushed =>
        /\ gw_in.git_auto_push \/ gw_in.git_create_pr
        /\ gw_in.git_branch_name
        /\ ~gw_out.push_dirty

\* C29: when the commit worker ran the tool calls, every call was tried, each
\* call that raised has its own git_error provenance entry, and the push and
\* PR steps ran whenever their flags ask for them.
C29_ErrorsRecordedAndContinue ==
    (gw_out.done /\ gw_out.commit_step /\ gw_out.tried # {}) =>
        /\ gw_out.tried = DOMAIN gw_in.calls
        /\ \A i \in gw_out.raised :
              \E k \in DOMAIN gw_out.prov : gw_out.prov[k] = <<"git_error", i>>
        /\ (gw_in.git_auto_push \/ gw_in.git_create_pr) => gw_out.push_step
        /\ (gw_in.git_create_pr /\ gw_in.git_branch_name) => gw_out.pr_step

\* a first call that raised, a second call that still ran, and the push after
C29_Witness ==
    /\ gw_out.done
    /\ 1 \in gw_out.raised
    /\ 2 \in gw_out.tried
    /\ gw_out.pushed

(* ---------------- properties of check_health ---------------- *)

\* the git roles whose performance index is below 0.5
LowRoles == {r \in Roles : get_performance_index(hin.stats[r]) < PI_LOW}

\* C30 (as stated): check_health evaluates all five git roles; it reports
\* CRITICAL iff at least 3 tools are problematic or at least 2 roles have an
\* index below 0.5, HEALTHY iff no tool is problematic and no role has, and
\* DEGRADED otherwise.
C30_HealthStatus ==
    hout.done =>
        /\ hout.evaluated = Roles
        /\ hout.status = "CRITICAL" <=>
              (Cardinality(hin.tools) >= TOOLS_CRITICAL
                  \/ Cardinality(LowRoles) >= ROLES_CRITICAL)
        /\ hout.status = "HEALTHY" <=> (hin.tools = {} /\ LowRoles = {})
        /\ hout.status \in {"CRITICAL", "HEALTHY", "DEGRADED"}

(* ---------------- properties of select_next_speaker ---------------- *)

\* C31 (as stated): select_next_speaker returns the smallest identifier among
\* the agents the constraints leave, and none exactly when none is left.
C31_SmallestAvailable ==
    sp_out.done =>
        LET left == available(sp_in.agents, sp_in.turns, sp_in.constraints)
        IN  /\ sp_out.speaker = "none" <=> left = {}
            /\ left # {} =>
                  /\ sp_out.speaker \in left
                  /\ \A a \in left : rank(sp_out.speaker) <= rank(a)

(* ---------------- properties of compute_decision ---------------- *)

Unanimous(d) == \A i \in DOMAIN vt_in.votes : vt_in.votes[i].decision = d

\* C32 (as stated): for every vote list with at least 2 votes the margin is
\* >= 0, and when every vote carries the same decision d the result is d,
\* whatever the ratings and with or without Elo weighting.
C32_MarginAndUnanimity ==
    vt_out.done =>
        /\ vt_out.winning_margin >= 0
        /\ \A d \in Decisions : Unanimous(d) => vt_out.decision = d

\* C32 (amended): the margin is >= 0 when the votes carry at least two
\* different decisions, or Elo weighting is off, or no voter's rating is below
\* zero; when every vote carries the same decision d the result is d in every
\* case.
C32_MarginTwoDecisionsOrNoNegativeRating ==
    vt_out.done =>
        /\ ((\A d \in Decisions : ~Unanimous(d))
               \/ ~vt_in.use_elo
               \/ \A i \in DOMAIN vt_in.votes : vt_in.ratings[vt_in.votes[i].agent_id] >= 0)
              => vt_out.winning_margin >= 0
        /\ \A d \in Decisions : Unanimous(d) => vt_out.decision = d

\* a unanimous list weighted by Elo whose voters differ in rating, one below
\* the initial rating and one above
C32_Witness ==
    /\ vt_out.done
    /\ vt_in.use_elo
    /\ Unanimous("reject")
    /\ vt_in.ratings["v1"] = 3000 /\ vt_in.ratings["v2"] = initial_rating
    /\ \E i, j \in DOMAIN vt_in.votes :
           vt_in.votes[i].agent_id = "v1" /\ vt_in.votes[j].agent_id = "v2"
    /\ vt_out.decision = "reject"
    /\ vt_out.winning_margin > 0

(* ---------------- properties of claim_task ---------------- *)

\* C33 (as stated): when both sessions have called claim_task on the same task,
\* at most one call reported success, and the plan attributes the task to the
\* session whose call did.
C33_ClaimExclusive ==
    \A x, y \in Sessions :
        (x # y /\ claimer[x].at = "done" /\ claimer[y].at = "done"
            /\ claimer[x].task = claimer[y].task /\ claimer[x].result = "claimed") =>
            /\ claimer[y].result # "claimed"
            /\ gplan[claimer[x].task] = Line("/", x)

(* ---------------- properties of the inbound sync's result ---------------- *)

\* C34 (as stated): when the inbound sync of the orchestrate loop changed the
\* status of a task or added a task, sync_inbound returned True and the loop
\* saved: the profile file holds the blackboard as the sync left it.
C34_SyncChangesSaved ==
    (last.op = "sync" /\ StatusOf(mem) # last.pre) => disk = mem

\* C35: every PENDING task that the orchestrate loop keeps processing (the
\* loop runs for ever unless a tick raises) reaches COMPLETED or FAILED; no
\* task stays PENDING for ever, in autonomous or agentic mode
C35_PendingEnds ==
    \A t \in Tasks :
        (t \in DOMAIN disk.tasks /\ disk.tasks[t].status = "PENDING")
            ~> \/ phase = "stopped"
               \/ t \in DOMAIN disk.tasks /\ disk.tasks[t].status \in {"COMPLETED", "FAILED"}
\* C36: for a PENDING task with a dispatch flag whose handler succeeds, some
\* later tick reaches the worker (LLM) flow for that task (or a tick's
\* handlers all fail or the loop has died, which is outside the claim's case)
C36_WorkerFlowReached ==
    \A t \in Tasks :
        (/\ t \in DOMAIN disk.tasks
         /\ disk.tasks[t].status = "PENDING"
         /\ Flagged(disk.tasks[t]) # {})
            ~> \/ phase = "stopped"
               \/ /\ last.op = "tick"
                  /\ last.task = t
                  /\ \/ last.path \in {"worker", "raised"}
                     \/ last.ran # <<>> /\ last.ok = {}
\* C37: a dispatch in which the role's execute failed leaves the role with a
\* lower performance index than it had before the dispatch
C37_FailureLowersIndex ==
    (fd_last.called /\ fd_last.status = "FAILED") => fd_last.pi_after < fd_last.pi_before
\* C38: with a plan nobody edited, an outbound sync followed by an inbound
\* sync leaves the blackboard as it was: no task added, no field of a task
\* changed
C38_SyncTripKeepsBoard == [][rt_out'.done => rt_in' = rt_in]_vars
\* C39: the memory_bank a tick saves is the memory_bank it loaded, whatever
\* was injected into the worker context
C39_ContextLeavesBank ==
    cx_last.called => (bank_disk = cx_last.loaded /\ memory_bank = cx_last.loaded)
\* C40: the round counter of a debate never exceeds max_rounds, and a debate
\* that has been through max_rounds revision rounds is CONVERGED, whatever
\* the revisions were
C40_RoundsBounded ==
    /\ debate.current_round <= max_rounds
    /\ (debate.exists /\ debate.current_round >= max_rounds) => debate.phase = "CONVERGED"

\* a debate ended by the round limit alone: the last revision round changed
\* every agent's draft
C40_Witness ==
    /\ db_last.op = "revision_phase"
    /\ ~db_last.raised
    /\ db_last.same = 0
    /\ debate.current_round = max_rounds
    /\ debate.phase = "CONVERGED"
====
